---- MODULE Spec2Model ----
(***************************************************************************)
(* email-page: POST /new turns a JSON {title, message} into an HTML page   *)
(* stored as <dataDir>/page-<id>.html, GET /:pageId serves it back, and a  *)
(* notification mail with the page URL is handed to the SMTP transport.    *)
(*                                                                         *)
(* A JavaScript string is modelled as a sequence of one-character strings, *)
(* a JavaScript value as a record tagged with its type.                    *)
(***************************************************************************)
EXTENDS Integers, Sequences, FiniteSets, TLC

(***************************************************************************)
(* Bounds of the model                                                     *)
(***************************************************************************)
\* the clock runs over the milliseconds 0..MaxClock
MaxClock == 1
\* at most MaxRequests POST /new requests are answered 204 in a behaviour
MaxRequests == 2
\* at most MaxMails messages are handed to the mail transport in a behaviour
MaxMails == 1

(***************************************************************************)
(* Strings                                                                 *)
(***************************************************************************)
UpperCase == <<"A", "B", "C", "D", "E", "F", "G", "H", "I", "J", "K", "L", "M", "N", "O", "P", "Q", "R", "S", "T", "U", "V", "W", "X", "Y", "Z">>
LowerCase == <<"a", "b", "c", "d", "e", "f", "g", "h", "i", "j", "k", "l", "m", "n", "o", "p", "q", "r", "s", "t", "u", "v", "w", "x", "y", "z">>
DecimalDigits == <<"0", "1", "2", "3", "4", "5", "6", "7", "8", "9">>
HexDigits == <<"0", "1", "2", "3", "4", "5", "6", "7", "8", "9", "a", "b", "c", "d", "e", "f">>

Range(s) == {s[i] : i \in DOMAIN s}

\* the least element of a non-empty set of integers
Least(S) == CHOOSE x \in S : \A y \in S : x <= y

Min(a, b) == IF a < b THEN a ELSE b
Max(a, b) == IF a > b THEN a ELSE b

\* String.prototype.toLowerCase, one character
toLowerCaseChar(c) ==
    IF \E i \in DOMAIN UpperCase : UpperCase[i] = c
    THEN LowerCase[CHOOSE i \in DOMAIN UpperCase : UpperCase[i] = c]
    ELSE c

\* String.prototype.toLowerCase
toLowerCase(s) == [i \in 1..Len(s) |-> toLowerCaseChar(s[i])]

\* String.prototype.includes
includes(s, sub) ==
    \E i \in 0..(Len(s) - Len(sub)) : SubSeq(s, i + 1, i + Len(sub)) = sub

\* String.prototype.substring(start, end): both indices are clamped to the
\* length of the string and swapped when start > end
substring(s, start, end) ==
    LET a == Min(Max(start, 0), Len(s))
        b == Min(Max(end, 0), Len(s))
    IN  SubSeq(s, Min(a, b) + 1, Max(a, b))

\* the character class \w of a JavaScript regular expression
IsWordChar(c) ==
    c \in Range(UpperCase) \cup Range(LowerCase) \cup Range(DecimalDigits) \cup {"_"}

(***************************************************************************)
(* JavaScript values                                                       *)
(***************************************************************************)
Undefined == [t |-> "undefined", s |-> <<>>, n |-> 0]
Str(s) == [t |-> "string", s |-> s, n |-> 0]
Num(n) == [t |-> "number", s |-> <<>>, n |-> n]
NaN == [t |-> "NaN", s |-> <<>>, n |-> 0]
\* a plain object such as {}
Obj == [t |-> "object", s |-> <<>>, n |-> 0]
\* a built-in function, by its name
Fn(name) == [t |-> "function", s |-> name, n |-> 0]

\* the operand of `!x` and of `x ? a : b`
Truthy(v) ==
    CASE v.t = "undefined" -> FALSE
      [] v.t = "string" -> v.s # <<>>
      [] v.t = "number" -> v.n # 0
      [] v.t = "NaN" -> FALSE
      [] OTHER -> TRUE

RECURSIVE NatToString(_)
NatToString(n) ==
    IF n < 10 THEN <<DecimalDigits[n + 1]>>
    ELSE NatToString(n \div 10) \o <<DecimalDigits[(n % 10) + 1]>>

\* the string conversion String.prototype.replace applies to what its
\* replacer function returns
JSToString(v) ==
    CASE v.t = "string" -> v.s
      [] v.t = "number" -> IF v.n < 0 THEN <<"-">> \o NatToString(-v.n) ELSE NatToString(v.n)
      [] v.t = "object" -> <<"[", "o", "b", "j", "e", "c", "t", " ", "O", "b", "j", "e", "c", "t", "]">>
      [] v.t = "function" -> <<"f", "u", "n", "c", "t", "i", "o", "n", " ">> \o v.s \o <<"(", ")", " ", "{", " ", "[", "n", "a", "t", "i", "v", "e", " ", "c", "o", "d", "e", "]", " ", "}">>
      [] OTHER -> <<"u", "n", "d", "e", "f", "i", "n", "e", "d">>

\* the properties every object literal inherits from Object.prototype
ObjectPrototypeKeys ==
    { <<"c", "o", "n", "s", "t", "r", "u", "c", "t", "o", "r">>, <<"_", "_", "p", "r", "o", "t", "o", "_", "_">>, <<"h", "a", "s", "O", "w", "n", "P", "r", "o", "p", "e", "r", "t", "y">>, <<"i", "s", "P", "r", "o", "t", "o", "t", "y", "p", "e", "O", "f">>,
      <<"p", "r", "o", "p", "e", "r", "t", "y", "I", "s", "E", "n", "u", "m", "e", "r", "a", "b", "l", "e">>, <<"t", "o", "L", "o", "c", "a", "l", "e", "S", "t", "r", "i", "n", "g">>, <<"t", "o", "S", "t", "r", "i", "n", "g">>, <<"v", "a", "l", "u", "e", "O", "f">>,
      <<"_", "_", "d", "e", "f", "i", "n", "e", "G", "e", "t", "t", "e", "r", "_", "_">>, <<"_", "_", "d", "e", "f", "i", "n", "e", "S", "e", "t", "t", "e", "r", "_", "_">>, <<"_", "_", "l", "o", "o", "k", "u", "p", "G", "e", "t", "t", "e", "r", "_", "_">>, <<"_", "_", "l", "o", "o", "k", "u", "p", "S", "e", "t", "t", "e", "r", "_", "_">> }

ObjectPrototype ==
    [k \in ObjectPrototypeKeys |->
        IF k = <<"c", "o", "n", "s", "t", "r", "u", "c", "t", "o", "r">> THEN Fn(<<"O", "b", "j", "e", "c", "t">>)
        ELSE IF k = <<"_", "_", "p", "r", "o", "t", "o", "_", "_">> THEN Obj
        ELSE Fn(k)]

\* data[key]: an own property, else the inherited one, else undefined
GetProperty(data, key) ==
    IF key \in DOMAIN data THEN data[key]
    ELSE IF key \in DOMAIN ObjectPrototype THEN ObjectPrototype[key]
    ELSE Undefined

(***************************************************************************)
(* helpers.ts                                                              *)
(***************************************************************************)
\* the hex digest of SHA-256 has 256 / 4 characters
DigestHexLength == 64

\* crypto.createHash("sha256").update(uniqueString).digest("hex"), where
\* uniqueString = now.toISOString() + Math.random().toString().  The ISO
\* string has a fixed length, so the concatenation determines the pair
\* (now, random) and the digest is a function of that pair.  SHA-256 itself
\* is library code: it is represented by a fixed mixing function that gives
\* DigestHexLength hex digits and maps different pairs of the model to
\* digests that differ within their first 16 digits.
Sha256Hex(date, rnd) ==
    [i \in 1..DigestHexLength |->
        HexDigits[((7 * date + 3 * rnd + (i % 16) * (date + 2 * rnd + 1)) % 16) + 1]]

\* date: what new Date() returns; rnd: what Math.random() returns
generatePageId(hashLength, date, rnd) ==
    LET hash == Sha256Hex(date, rnd)
    IN  substring(hash, 0, hashLength)

\* the number of consecutive \w characters of s from index i on
RECURSIVE WordRun(_, _)
WordRun(s, i) ==
    IF i <= Len(s) /\ IsWordChar(s[i]) THEN 1 + WordRun(s, i + 1) ELSE 0

\* the length of the match of /\{\{(\w+)\}\}/ at index i of s, 0 when there
\* is none; \w+ is greedy and "}" is no \w character, so the key is the
\* whole run of \w characters behind "{{"
MatchLength(s, i) ==
    IF i + 1 <= Len(s) /\ s[i] = "{" /\ s[i + 1] = "{"
    THEN LET k == WordRun(s, i + 2)
         IN  IF /\ k >= 1
                /\ i + 3 + k <= Len(s)
                /\ s[i + 2 + k] = "}"
                /\ s[i + 3 + k] = "}"
             THEN k + 4
             ELSE 0
    ELSE 0

\* the replacer of applyTemplate: (match, key) => data[key] !== undefined ? data[key] : match
Replacer(data, match, key) ==
    IF GetProperty(data, key) # Undefined
    THEN JSToString(GetProperty(data, key))
    ELSE match

\* template.replace(/\{\{(\w+)\}\}/g, replacer) from index i on: the text up
\* to the next match is kept, the match is replaced, and the search goes on
\* behind the match in the template, never in a replacement
RECURSIVE ReplaceFrom(_, _, _)
ReplaceFrom(template, data, i) ==
    LET matches == {j \in i..Len(template) : MatchLength(template, j) > 0}
    IN  IF matches = {} THEN SubSeq(template, i, Len(template))
        ELSE LET j == Least(matches)
                 m == MatchLength(template, j)
             IN  SubSeq(template, i, j - 1)
                     \o Replacer(data, SubSeq(template, j, j + m - 1),
                                       SubSeq(template, j + 2, j + m - 3))
                     \o ReplaceFrom(template, data, j + m)

\* a variant that scans its own output once more
applyTemplateTwice(template, data) == ReplaceFrom(ReplaceFrom(template, data, 1), data, 1)

applyTemplate(template, data) == ReplaceFrom(template, data, 1)

(***************************************************************************)
(* Node library functions used by index.ts                                 *)
(***************************************************************************)
IsDigit(c) == c \in Range(DecimalDigits)
DigitValue(c) == (CHOOSE i \in DOMAIN DecimalDigits : DecimalDigits[i] = c) - 1

\* the number of consecutive decimal digits of s from index i on
RECURSIVE DigitRun(_, _)
DigitRun(s, i) == IF i <= Len(s) /\ IsDigit(s[i]) THEN 1 + DigitRun(s, i + 1) ELSE 0

RECURSIVE SpaceRun(_, _)
SpaceRun(s, i) ==
    IF i <= Len(s) /\ s[i] \in {" ", "\t", "\n", "\r"} THEN 1 + SpaceRun(s, i + 1) ELSE 0

RECURSIVE DecimalValue(_, _, _)
DecimalValue(s, i, k) ==
    IF k = 0 THEN 0 ELSE 10 * DecimalValue(s, i, k - 1) + DigitValue(s[i + k - 1])

\* parseInt(s, 10): leading white space, an optional sign, then the longest
\* run of digits; NaN when there is no digit
parseInt(s) ==
    LET a == 1 + SpaceRun(s, 1)
        signed == a <= Len(s) /\ s[a] \in {"+", "-"}
        b == IF signed THEN a + 1 ELSE a
        k == DigitRun(s, b)
    IN  IF k = 0 THEN NaN
        ELSE IF signed /\ s[a] = "-" THEN Num(-DecimalValue(s, b, k))
        ELSE Num(DecimalValue(s, b, k))

\* s.split("/") from index i on: the text up to the next "/", then the rest
RECURSIVE SplitSlash(_, _)
SplitSlash(s, i) ==
    LET slashes == {j \in i..Len(s) : s[j] = "/"}
    IN  IF slashes = {} THEN <<SubSeq(s, i, Len(s))>>
        ELSE <<SubSeq(s, i, Least(slashes) - 1)>> \o SplitSlash(s, Least(slashes) + 1)

\* the segments of a normalized path: "" and "." are dropped, ".." removes
\* the segment before it (and stays when a relative path has none)
RECURSIVE NormalizeSegments(_, _, _, _)
NormalizeSegments(segs, i, stack, absolute) ==
    IF i > Len(segs) THEN stack
    ELSE LET seg == segs[i]
         IN  IF seg = <<>> \/ seg = <<".">>
             THEN NormalizeSegments(segs, i + 1, stack, absolute)
             ELSE IF seg = <<".", ".">>
             THEN IF stack # <<>> /\ stack[Len(stack)] # <<".", ".">>
                  THEN NormalizeSegments(segs, i + 1, SubSeq(stack, 1, Len(stack) - 1), absolute)
                  ELSE IF absolute
                  THEN NormalizeSegments(segs, i + 1, stack, absolute)
                  ELSE NormalizeSegments(segs, i + 1, Append(stack, seg), absolute)
             ELSE NormalizeSegments(segs, i + 1, Append(stack, seg), absolute)

RECURSIVE JoinSlash(_, _)
JoinSlash(segs, i) ==
    IF i > Len(segs) THEN <<>>
    ELSE IF i = Len(segs) THEN segs[i]
    ELSE segs[i] \o <<"/">> \o JoinSlash(segs, i + 1)

\* path.join(dir, name): dir + "/" + name, normalized
pathJoin(dir, name) ==
    LET joined == dir \o <<"/">> \o name
        absolute == joined[1] = "/"
        stack == NormalizeSegments(SplitSlash(joined, 1), 1, <<>>, absolute)
        body == JoinSlash(stack, 1)
    IN  IF absolute THEN <<"/">> \o body
        ELSE IF body = <<>> THEN <<".">>
        ELSE body

(***************************************************************************)
(* The environment of a process: process.env and the template directory    *)
(***************************************************************************)
\* process.env, every variable a string or undefined
NoEnv ==
    [PORT |-> Undefined, SMTP_HOST |-> Undefined, SMTP_PORT |-> Undefined,
     SMTP_USER |-> Undefined, SMTP_PASS |-> Undefined, DOMAIN_NAME |-> Undefined,
     EMAIL_FROM |-> Undefined, EMAIL_TO |-> Undefined, HASH_LENGTH |-> Undefined,
     TEMPLATE_FILE |-> Undefined, NODE_ENV |-> Undefined, DATA_DIR |-> Undefined]

Environments ==
    { NoEnv,
      [NoEnv EXCEPT !.HASH_LENGTH = Str(<<"1", "6">>), !.TEMPLATE_FILE = Str(<<"p", "l", "a", "i", "n", ".", "h", "t", "m", "l">>),
                    !.SMTP_HOST = Str(<<"m", "x">>), !.SMTP_PORT = Str(<<"4", "6", "5">>),
                    !.SMTP_USER = Str(<<"u">>), !.SMTP_PASS = Str(<<"p", "w">>),
                    !.EMAIL_FROM = Str(<<"a", "@", "b">>), !.EMAIL_TO = Str(<<"c", "@", "d">>),
                    !.DOMAIN_NAME = Str(<<"x", ".", "i", "o">>),
                    !.NODE_ENV = Str(<<"p", "r", "o", "d", "u", "c", "t", "i", "o", "n">>)] }

\* the files of the template directory
TemplateFiles ==
    (<<"d", "e", "f", "a", "u", "l", "t", ".", "h", "t", "m", "l">> :> <<"<", "t", "i", "t", "l", "e", ">", "{", "{", "t", "i", "t", "l", "e", "}", "}", "<", "/", "t", "i", "t", "l", "e", ">", "<", "h", "1", ">", "{", "{", "t", "i", "t", "l", "e", "}", "}", "<", "/", "h", "1", ">", "<", "p", ">", "{", "{", "m", "e", "s", "s", "a", "g", "e", "}", "}", "<", "/", "p", ">">>)
    @@ (<<"p", "l", "a", "i", "n", ".", "h", "t", "m", "l">> :> <<"{", "{", "m", "e", "s", "s", "a", "g", "e", "}", "}", " ", "{", "{", "u", "r", "l", "}", "}">>)
    @@ (<<"h", "o", "m", "e", ".", "h", "t", "m", "l">> :> <<"P", "O", "S", "T", " ", "{", "{", "d", "o", "m", "a", "i", "n", "}", "}", "/", "n", "e", "w">>)
    @@ (<<"4", "0", "4", ".", "h", "t", "m", "l">> :> <<"<", "h", "1", ">", "4", "0", "4", "<", "/", "h", "1", ">">>)

\* the file system as the start-up code finds it: each directory exists, can
\* be created by mkdirSync, or cannot ("failing": mkdirSync throws); and the
\* required templates (the page template, home.html, 404.html) that exist and
\* that readFileSync can read. A directory that must be created has no files.
RequiredTemplates == {"default", "home", "404"}

FineDisk ==
    [dataDir |-> "exists", templateDir |-> "exists", publicDir |-> "exists",
     present |-> RequiredTemplates, readable |-> RequiredTemplates]

Disks ==
    {FineDisk}
    \cup {[FineDisk EXCEPT !.dataDir = d] : d \in {"creatable", "failing"}}
    \cup {[FineDisk EXCEPT !.templateDir = "failing"],
          [FineDisk EXCEPT !.templateDir = "creatable", !.present = {}, !.readable = {}]}
    \cup {[FineDisk EXCEPT !.publicDir = d] : d \in {"creatable", "failing"}}
    \cup {[FineDisk EXCEPT !.present = RequiredTemplates \ {t},
                           !.readable = RequiredTemplates \ {t}] : t \in RequiredTemplates}
    \cup {[FineDisk EXCEPT !.readable = RequiredTemplates \ {t}] : t \in RequiredTemplates}
    \cup {[FineDisk EXCEPT !.dataDir = "failing", !.present = {"default", "home"},
                           !.readable = {"default", "home"}],
          [FineDisk EXCEPT !.dataDir = "failing", !.readable = {"home", "404"}]}

\* the values Math.random() returns
RandomValues == {1, 2}

(***************************************************************************)
(* types.ts and the start-up code of index.ts                              *)
(***************************************************************************)
DefaultPort == 3000
DefaultHashLength == 32
MinHashLength == 16
MaxHashLength == 256
DefaultSmtpPort == 25
dataDirectory == <<".", "/", "d", "a", "t", "a">>

\* `a || b`
OrElse(a, b) == IF Truthy(a) THEN a ELSE b

port(e) == IF Truthy(e.PORT) THEN parseInt(e.PORT.s) ELSE Num(DefaultPort)

StartConfig(e) ==
    [smtp |-> [host |-> OrElse(e.SMTP_HOST, Str(<<>>)),
               port |-> OrElse(e.SMTP_PORT, Str(<<>>)),
               user |-> OrElse(e.SMTP_USER, Str(<<>>)),
               pass |-> OrElse(e.SMTP_PASS, Str(<<>>))],
     domain |-> OrElse(e.DOMAIN_NAME, Str(<<"l", "o", "c", "a", "l", "h", "o", "s", "t", ":">> \o JSToString(port(e)))),
     email |-> [from |-> OrElse(e.EMAIL_FROM, Str(<<>>)),
                to |-> OrElse(e.EMAIL_TO, Str(<<>>))]]

\* the warning of an invalid HASH_LENGTH is logged
HashLengthInvalid(e) ==
    /\ Truthy(e.HASH_LENGTH)
    /\ LET parsedLength == parseInt(e.HASH_LENGTH.s)
       IN  ~(parsedLength # NaN /\ parsedLength.n >= MinHashLength /\ parsedLength.n <= MaxHashLength)

\* a variant that takes every number parseInt reads
StartHashLengthUnchecked(e) ==
    IF Truthy(e.HASH_LENGTH) /\ parseInt(e.HASH_LENGTH.s) # NaN
    THEN parseInt(e.HASH_LENGTH.s).n
    ELSE DefaultHashLength

StartHashLength(e) ==
    IF Truthy(e.HASH_LENGTH) /\ ~HashLengthInvalid(e)
    THEN parseInt(e.HASH_LENGTH.s).n
    ELSE DefaultHashLength

StartDataDir(e) ==
    IF e.NODE_ENV = Str(<<"t", "e", "s", "t">>) THEN dataDirectory
    ELSE IF e.NODE_ENV = Str(<<"p", "r", "o", "d", "u", "c", "t", "i", "o", "n">>) THEN <<"/", "e", "t", "c", "/", "e", "m", "a", "i", "l", "-", "p", "a", "g", "e", "/", "d", "a", "t", "a">>
    ELSE dataDirectory

templateFile(e) == OrElse(e.TEMPLATE_FILE, Str(<<"d", "e", "f", "a", "u", "l", "t", ".", "h", "t", "m", "l">>)).s

(***************************************************************************)
(* The state of the running server                                         *)
(***************************************************************************)
VARIABLES
    HASH_LENGTH,      \* index.ts: let HASH_LENGTH
    config,           \* index.ts: const config
    dataDir,          \* index.ts: const dataDir
    htmlTemplate,     \* the loaded page template
    homeTemplate,     \* the loaded home.html
    notFoundTemplate, \* the loaded 404.html
    dataDirExists,    \* whether the data directory exists on disk
    files,            \* the files on disk: normalized path -> content
    now,              \* the clock, in milliseconds
    created,          \* the number of POST /new requests answered 204
    last,             \* the request handled last and its response
    written,          \* page id -> the titles and contents that the requests answered
                      \* 204 wrote under it, in order
    transports,       \* the options of every nodemailer.createTransport call
    outbox,           \* every message handed to transporter.sendMail, with its promise
    startLog,         \* the kinds of lines the start-up code logged
    call,             \* the last direct call of a function of helpers.ts
    pc,               \* where the module code of index.ts stands: "start", "dataDir",
                      \* "templates", "load", "middleware", "listening", or "aborted"
                      \* once an exception has left the module; "rejection" while a
                      \* rejected promise nobody handles is queued, and "exited" once
                      \* the process has ended for it
    env,              \* process.env
    disk              \* the file system the start-up code finds

vars ==
    <<HASH_LENGTH, config, dataDir, htmlTemplate, homeTemplate, notFoundTemplate,
      dataDirExists, files, now, created, last, written, transports, outbox, startLog,
      call, pc, env, disk>>

startVars ==
    <<HASH_LENGTH, config, dataDir, htmlTemplate, homeTemplate, notFoundTemplate, startLog,
      pc, env, disk>>

NoBody == [present |-> FALSE, title |-> Undefined, message |-> Undefined]
Body(title, message) == [present |-> TRUE, title |-> title, message |-> message]

\* no function of helpers.ts has been called directly
NoCall ==
    [fn |-> "none", template |-> <<>>, data |-> <<>>, hashLength |-> 0, result |-> <<>>,
     config |-> StartConfig(NoEnv), pageUrl |-> <<>>, title |-> Undefined,
     promise |-> "none", log |-> {}]

NoRequest ==
    [method |-> "none", body |-> NoBody, pageId |-> <<>>, newId |-> <<>>,
     status |-> 0, contentType |-> "", resBody |-> <<>>, log |-> {}, ioFailed |-> FALSE]

Init ==
    \E e \in Environments :
        /\ HASH_LENGTH = StartHashLength(e)
        /\ config = StartConfig(e)
        /\ dataDir = StartDataDir(e)
        /\ htmlTemplate = TemplateFiles[templateFile(e)]
        /\ homeTemplate = TemplateFiles[<<"h", "o", "m", "e", ".", "h", "t", "m", "l">>]
        /\ notFoundTemplate = TemplateFiles[<<"4", "0", "4", ".", "h", "t", "m", "l">>]
        \* mkdirSync of the data directory may have failed: outside NODE_ENV=test
        \* that is logged and the server starts without the directory
        /\ dataDirExists \in BOOLEAN
        /\ files = <<>>
        /\ now = 0
        /\ created = 0
        /\ last = NoRequest
        /\ written = <<>>
        /\ transports = <<>>
        /\ outbox = <<>>
        /\ startLog = IF HashLengthInvalid(e) THEN {"Invalid HASH_LENGTH value"} ELSE {}
        /\ call = NoCall
        \* the module code has run to its end
        /\ pc = "listening"
        /\ env = e
        /\ disk = [FineDisk EXCEPT !.dataDir = IF dataDirExists THEN "exists" ELSE "failing"]

(***************************************************************************)
(* helpers.ts: sendEmail, up to its await                                  *)
(***************************************************************************)
\* a variant of the guard that does not look at the recipient
ConfigIncompleteWithoutTo(cfg) ==
    ~Truthy(cfg.smtp.host) \/ ~Truthy(cfg.email.from)

\* the guard of sendEmail: nothing is sent
ConfigIncomplete(cfg) ==
    ~Truthy(cfg.smtp.host) \/ ~Truthy(cfg.email.from) \/ ~Truthy(cfg.email.to)

\* a variant that compares the parsed port number with 465
TransportOptionsSecureByNumber(cfg) ==
    [host |-> cfg.smtp.host,
     port |-> IF Truthy(cfg.smtp.port) THEN parseInt(cfg.smtp.port.s) ELSE Num(DefaultSmtpPort),
     secure |-> Truthy(cfg.smtp.port) /\ parseInt(cfg.smtp.port.s) = Num(465),
     auth |-> IF Truthy(cfg.smtp.user) /\ Truthy(cfg.smtp.pass)
              THEN [user |-> cfg.smtp.user, pass |-> cfg.smtp.pass]
              ELSE Undefined]

\* a variant that attaches credentials as soon as there is a user
TransportOptionsAuthByUser(cfg) ==
    [host |-> cfg.smtp.host,
     port |-> IF Truthy(cfg.smtp.port) THEN parseInt(cfg.smtp.port.s) ELSE Num(DefaultSmtpPort),
     secure |-> cfg.smtp.port = Str(<<"4", "6", "5">>),
     auth |-> IF Truthy(cfg.smtp.user)
              THEN [user |-> cfg.smtp.user, pass |-> cfg.smtp.pass]
              ELSE Undefined]

\* the argument of nodemailer.createTransport
TransportOptions(cfg) ==
    [host |-> cfg.smtp.host,
     port |-> IF Truthy(cfg.smtp.port) THEN parseInt(cfg.smtp.port.s) ELSE Num(DefaultSmtpPort),
     secure |-> cfg.smtp.port = Str(<<"4", "6", "5">>),
     auth |-> IF Truthy(cfg.smtp.user) /\ Truthy(cfg.smtp.pass)
              THEN [user |-> cfg.smtp.user, pass |-> cfg.smtp.pass]
              ELSE Undefined]

\* a variant whose text body leaves the address of the page out
MailOptionsTextWithoutUrl(cfg, pageUrl, title) ==
    [from |-> cfg.email.from,
     to |-> cfg.email.to,
     subject |-> title,
     text |-> JSToString(title),
     html |-> <<"<", "p", ">", "<", "s", "t", "r", "o", "n", "g", ">">> \o JSToString(title) \o <<"<", "/", "s", "t", "r", "o", "n", "g", ">", ".", "<", "/", "p", ">", "<", "p", ">", "V", "i", "e", "w", " ", "a", "t", ":", " ", "<", "a", " ", "h", "r", "e", "f", "=", "\"">>
                  \o pageUrl \o <<"\"", ">">> \o pageUrl \o <<"<", "/", "a", ">", "<", "/", "p", ">">>]

\* the argument of transporter.sendMail
MailOptions(cfg, pageUrl, title) ==
    [from |-> cfg.email.from,
     to |-> cfg.email.to,
     subject |-> title,
     text |-> JSToString(title) \o <<"\n", "\n", "V", "i", "e", "w", " ", "a", "t", ":", " ">> \o pageUrl,
     html |-> <<"<", "p", ">", "<", "s", "t", "r", "o", "n", "g", ">">> \o JSToString(title) \o <<"<", "/", "s", "t", "r", "o", "n", "g", ">", ".", "<", "/", "p", ">", "<", "p", ">", "V", "i", "e", "w", " ", "a", "t", ":", " ", "<", "a", " ", "h", "r", "e", "f", "=", "\"">>
                  \o pageUrl \o <<"\"", ">">> \o pageUrl \o <<"<", "/", "a", ">", "<", "/", "p", ">">>]

\* the calls of createTransport after sendEmail(cfg, pageUrl, title)
sendEmailTransports(cfg, made) ==
    IF ConfigIncomplete(cfg) THEN made ELSE Append(made, TransportOptions(cfg))

\* a variant in which the caller has awaited the transport
sendEmailOutboxAwaited(cfg, pageUrl, title, box) ==
    IF ConfigIncomplete(cfg) THEN box
    ELSE Append(box, [mail |-> MailOptions(cfg, pageUrl, title), promise |-> "resolved",
                      log |-> {"Email sent:"}])

\* the messages handed to sendMail after sendEmail(cfg, pageUrl, title); the
\* promise of a new one is pending and sendEmail has logged nothing about it
sendEmailOutbox(cfg, pageUrl, title, box) ==
    IF ConfigIncomplete(cfg) THEN box
    ELSE Append(box, [mail |-> MailOptions(cfg, pageUrl, title), promise |-> "pending",
                      log |-> {}])

sendEmailLog(cfg) ==
    IF ConfigIncomplete(cfg)
    THEN {"SMTP configuration incomplete, skipping email send"}
    ELSE {}

(***************************************************************************)
(* index.ts: POST /new                                                     *)
(***************************************************************************)
JsonTitleAndMessageRequired == <<"{", "\"", "e", "r", "r", "o", "r", "\"", ":", "\"", "T", "i", "t", "l", "e", " ", "a", "n", "d", " ", "m", "e", "s", "s", "a", "g", "e", " ", "a", "r", "e", " ", "r", "e", "q", "u", "i", "r", "e", "d", "\"", "}">>
\* a variant that passes the message of the error on
JsonFailedWithDetail == <<"{", "\"", "e", "r", "r", "o", "r", "\"", ":", "\"", "E", "N", "O", "E", "N", "T", ":", " ", "n", "o", " ", "s", "u", "c", "h", " ", "f", "i", "l", "e", " ", "o", "r", " ", "d", "i", "r", "e", "c", "t", "o", "r", "y", "\"", "}">>
JsonFailedToCreatePage == <<"{", "\"", "e", "r", "r", "o", "r", "\"", ":", "\"", "F", "a", "i", "l", "e", "d", " ", "t", "o", " ", "c", "r", "e", "a", "t", "e", " ", "p", "a", "g", "e", "\"", "}">>
\* a variant with another wording
PageNotFoundTypo == <<"N", "o", "t", " ", "f", "o", "u", "n", "d">>
PageNotFound == <<"P", "a", "g", "e", " ", "n", "o", "t", " ", "f", "o", "u", "n", "d">>
\* a variant that answers with an empty body
ErrorServingPageEmpty == <<>>
ErrorServingPage == <<"E", "r", "r", "o", "r", " ", "s", "e", "r", "v", "i", "n", "g", " ", "p", "a", "g", "e">>

\* a variant that forgets toLowerCase
isHTMLCaseSensitive(message) == includes(message, <<"<", "h", "t", "m", "l">>)

\* message.toLowerCase().includes("<html")
isHTML(message) == includes(toLowerCase(message), <<"<", "h", "t", "m", "l">>)

\* message.replace(/\n/g, "<br/>") from index i on
RECURSIVE ReplaceNewlinesFrom(_, _)
ReplaceNewlinesFrom(message, i) ==
    LET newlines == {j \in i..Len(message) : message[j] = "\n"}
    IN  IF newlines = {} THEN SubSeq(message, i, Len(message))
        ELSE SubSeq(message, i, Least(newlines) - 1) \o <<"<", "b", "r", "/", ">">>
                 \o ReplaceNewlinesFrom(message, Least(newlines) + 1)

\* a variant without the g flag: only the first line feed is replaced
formattedMessageFirstOnly(message) ==
    LET newlines == {j \in 1..Len(message) : message[j] = "\n"}
    IN  IF newlines = {} THEN message
        ELSE SubSeq(message, 1, Least(newlines) - 1) \o <<"<", "b", "r", "/", ">">>
                 \o SubSeq(message, Least(newlines) + 1, Len(message))

formattedMessage(message) == ReplaceNewlinesFrom(message, 1)

\* a variant that hands applyTemplate the message only
htmlContentNoTitle(template, title, message) ==
    IF isHTML(message) THEN message
    ELSE applyTemplate(template, (<<"m", "e", "s", "s", "a", "g", "e">> :> Str(formattedMessage(message))))

\* the content POST /new writes for a title and a string message
htmlContent(template, title, message) ==
    IF isHTML(message) THEN message
    ELSE applyTemplate(template,
             (<<"t", "i", "t", "l", "e">> :> title) @@ (<<"m", "e", "s", "s", "a", "g", "e">> :> Str(formattedMessage(message))))

\* `page-${pageId}.html`
filename(pageId) == <<"p", "a", "g", "e", "-">> \o pageId \o <<".", "h", "t", "m", "l">>

\* the path POST /new writes
postFilePath(dir, pageId) == pathJoin(dir, filename(pageId))

\* a variant that links to the name of the file
pageUrlOfFile(cfg, pageId) ==
    <<"h", "t", "t", "p", ":", "/", "/">> \o JSToString(cfg.domain) \o <<"/", "p", "a", "g", "e", "-">> \o pageId \o <<".", "h", "t", "m", "l">>

\* `http://${config.domain}/${pageId}`
pageUrlOf(cfg, pageId) == <<"h", "t", "t", "p", ":", "/", "/">> \o JSToString(cfg.domain) \o <<"/">> \o pageId

\* the destructuring of an undefined req.body throws a TypeError, and so does
\* message.toLowerCase when the message is truthy and no string
PostThrowsBeforeWrite(body) ==
    \/ ~body.present
    \/ Truthy(body.title) /\ Truthy(body.message) /\ body.message.t # "string"

\* a variant of the validation that looks at the title only
PostInvalidTitleOnly(body) == body.present /\ ~Truthy(body.title)

\* `!title || !message` on a body that could be destructured
PostInvalid(body) == body.present /\ (~Truthy(body.title) \/ ~Truthy(body.message))

\* a variant that fails to replace a file that is there (flag "wx")
writeFileSyncExclusive(disc, path, data) == disc @@ (path :> data)

\* fs.writeFileSync(path, data) on the files disc: the file is created or
\* replaced
writeFileSync(disc, path, data) == (path :> data) @@ disc

\* a handled request: what came in, the response, the kinds of lines the
\* handler logged, and whether its file-system call threw
Respond(method, reqBody, reqId, newId, status, contentType, resBody, log, ioFailed) ==
    [method |-> method, body |-> reqBody, pageId |-> reqId, newId |-> newId,
     status |-> status, contentType |-> contentType, resBody |-> resBody, log |-> log,
     ioFailed |-> ioFailed]

\* body: req.body as body-parser left it; random: what Math.random() returns;
\* writeOk: whether fs.writeFileSync succeeds when the directory exists
PostNew(body, random, writeOk) ==
    LET pageId == generatePageId(HASH_LENGTH, now, random)
        filePath == postFilePath(dataDir, pageId)
        content == htmlContent(htmlTemplate, body.title, body.message.s)
        pageUrl == pageUrlOf(config, pageId)
    IN  IF PostInvalid(body)
        THEN /\ last' = Respond("POST /new", body, <<>>, <<>>, 400,
                                "application/json", JsonTitleAndMessageRequired, {}, FALSE)
             /\ UNCHANGED <<startVars, call, dataDirExists, files, now, created, written,
                            transports, outbox>>
        ELSE IF PostThrowsBeforeWrite(body) \/ ~dataDirExists \/ ~writeOk
        THEN /\ last' = Respond("POST /new", body, <<>>, <<>>, 500,
                                "application/json", JsonFailedToCreatePage,
                                {"Error creating page:"}, ~PostThrowsBeforeWrite(body))
             /\ UNCHANGED <<startVars, call, dataDirExists, files, now, created, written,
                            transports, outbox>>
        ELSE /\ created < MaxRequests
             /\ ConfigIncomplete(config) \/ Len(outbox) < MaxMails
             /\ files' = writeFileSync(files, filePath, content)
             /\ written' = (pageId :> Append(IF pageId \in DOMAIN written
                                              THEN written[pageId] ELSE <<>>,
                                              [title |-> body.title,
                                               message |-> body.message.s,
                                               content |-> content]))
                                @@ written
             /\ transports' = sendEmailTransports(config, transports)
             /\ outbox' = sendEmailOutbox(config, pageUrl, body.title, outbox)
             /\ created' = created + 1
             /\ last' = Respond("POST /new", body, <<>>, pageId, 204, "", <<>>,
                                {"Page created:", "Page URL:"} \cup sendEmailLog(config),
                                FALSE)
             /\ UNCHANGED <<startVars, call, dataDirExists, now>>

(***************************************************************************)
(* index.ts: GET /:pageId, GET / and the 404 handler                       *)
(***************************************************************************)
\* fs.existsSync
existsSync(path) == path \in DOMAIN files

\* a variant that forgets the page- prefix
getFilePathNoPrefix(dir, pageId) == pathJoin(dir, pageId \o <<".", "h", "t", "m", "l">>)

\* the path GET /:pageId looks up
getFilePath(dir, pageId) == pathJoin(dir, <<"p", "a", "g", "e", "-">> \o pageId \o <<".", "h", "t", "m", "l">>)

\* pageId: req.params.pageId; readOk: whether fs.readFileSync succeeds on the
\* file that existsSync has just found
GetPage(pageId, readOk) ==
    LET filePath == getFilePath(dataDir, pageId)
    IN  /\ last' = IF existsSync(filePath)
                   THEN IF readOk
                        THEN Respond("GET /:pageId", NoBody, pageId, <<>>, 200,
                                     "text/html", files[filePath], {}, FALSE)
                        ELSE Respond("GET /:pageId", NoBody, pageId, <<>>, 500,
                                     "text/html", ErrorServingPage, {"Error serving page:"},
                                     TRUE)
                   ELSE Respond("GET /:pageId", NoBody, pageId, <<>>, 404,
                                "text/html", PageNotFound, {}, FALSE)
        /\ UNCHANGED <<startVars, call, dataDirExists, files, now, created, written,
                       transports, outbox>>

GetHome ==
    /\ last' = Respond("GET /", NoBody, <<>>, <<>>, 200, "text/html",
                       applyTemplate(homeTemplate, (<<"d", "o", "m", "a", "i", "n">> :> config.domain)), {}, FALSE)
    /\ UNCHANGED <<startVars, call, dataDirExists, files, now, created, written,
                   transports, outbox>>

\* any request no route matches
NoRoute ==
    /\ last' = Respond("no route", NoBody, <<>>, <<>>, 404, "text/html", notFoundTemplate, {}, FALSE)
    /\ UNCHANGED <<startVars, call, dataDirExists, files, now, created, written,
                   transports, outbox>>

(***************************************************************************)
(* The environment: the clock and the mail transport                       *)
(***************************************************************************)
Tick ==
    /\ now < MaxClock
    /\ now' = now + 1
    /\ UNCHANGED <<startVars, call, dataDirExists, files, created, last, written,
                   transports, outbox>>

\* the promise of transporter.sendMail settles and sendEmail logs the outcome
SendMailSettles(i, ok) ==
    /\ i \in DOMAIN outbox
    /\ outbox[i].promise = "pending"
    /\ outbox' = [outbox EXCEPT ![i].promise = IF ok THEN "resolved" ELSE "rejected",
                                ![i].log = {IF ok THEN "Email sent:" ELSE "Error sending email:"}]
    /\ UNCHANGED <<startVars, call, dataDirExists, files, now, created, last, written, transports>>

(***************************************************************************)
(* index.js, the JavaScript server: its pages are named by a timestamp     *)
(***************************************************************************)
\* the local time at which the clock of the model starts
StartOfClock ==
    [year |-> 2025, month |-> 5, date |-> 25,
     hours |-> 12, minutes |-> 34, seconds |-> 59, milliseconds |-> 999]

\* new Date() when the clock shows t: the getters of the local time
DateAt(t) ==
    LET ms == ((StartOfClock.hours * 60 + StartOfClock.minutes) * 60
                   + StartOfClock.seconds) * 1000 + StartOfClock.milliseconds + t
    IN  [year |-> StartOfClock.year, month |-> StartOfClock.month,
         date |-> StartOfClock.date,
         hours |-> ms \div 3600000, minutes |-> (ms \div 60000) % 60,
         seconds |-> (ms \div 1000) % 60, milliseconds |-> ms % 1000]

\* String(n).padStart(width, "0")
RECURSIVE padStart(_, _)
padStart(s, width) == IF Len(s) >= width THEN s ELSE padStart(<<"0">> \o s, width)

generateTimestamp(date) ==
    LET year == NatToString(date.year)
        month == padStart(NatToString(date.month + 1), 2)
        day == padStart(NatToString(date.date), 2)
        hours == padStart(NatToString(date.hours), 2)
        minutes == padStart(NatToString(date.minutes), 2)
        seconds == padStart(NatToString(date.seconds), 2)
        milliseconds == padStart(NatToString(date.milliseconds), 3)
    IN  year \o <<"-">> \o month \o <<"-">> \o day \o <<"-">> \o hours \o minutes \o seconds
            \o milliseconds

\* the constants index.js reads from process.env, in the shape of config
StartConfigJs(e) ==
    [smtp |-> [host |-> e.SMTP_HOST, port |-> e.SMTP_PORT,
               user |-> e.SMTP_USER, pass |-> e.SMTP_PASS],
     domain |-> OrElse(e.DOMAIN_NAME,
                       Str(<<"l", "o", "c", "a", "l", "h", "o", "s", "t", ":">> \o JSToString(OrElse(e.PORT, Num(DefaultPort))))),
     email |-> [from |-> e.EMAIL_FROM, to |-> e.EMAIL_TO]]

StartDataDirJs(e) ==
    IF Truthy(e.DATA_DIR) THEN e.DATA_DIR.s
    ELSE IF e.NODE_ENV = Str(<<"t", "e", "s", "t">>) THEN <<".", "/", "d", "a", "t", "a">>
    ELSE IF e.NODE_ENV = Str(<<"p", "r", "o", "d", "u", "c", "t", "i", "o", "n">>) THEN <<"/", "e", "t", "c", "/", "e", "m", "a", "i", "l", "-", "p", "a", "g", "e", "/", "d", "a", "t", "a">>
    ELSE <<".", "/", "d", "a", "t", "a">>

TransportOptionsJs(cfg) ==
    [host |-> cfg.smtp.host,
     port |-> OrElse(cfg.smtp.port, Num(DefaultSmtpPort)),
     secure |-> cfg.smtp.port = Str(<<"4", "6", "5">>),
     auth |-> IF Truthy(cfg.smtp.user) /\ Truthy(cfg.smtp.pass)
              THEN [user |-> cfg.smtp.user, pass |-> cfg.smtp.pass]
              ELSE Undefined]

MailOptionsJs(cfg, pageUrl, title) ==
    [from |-> cfg.email.from,
     to |-> cfg.email.to,
     subject |-> Str(<<"N", "e", "w", " ", "p", "a", "g", "e", " ", "c", "r", "e", "a", "t", "e", "d", ":", " ">> \o JSToString(title)),
     text |-> <<"A", " ", "n", "e", "w", " ", "p", "a", "g", "e", " ", "h", "a", "s", " ", "b", "e", "e", "n", " ", "c", "r", "e", "a", "t", "e", "d", " ", "t", "i", "t", "l", "e", "d", " ", "\"">> \o JSToString(title)
                  \o <<"\"", ".", " ", "V", "i", "e", "w", " ", "i", "t", " ", "a", "t", ":", " ">> \o pageUrl,
     html |-> <<"<", "p", ">", "A", " ", "n", "e", "w", " ", "p", "a", "g", "e", " ", "h", "a", "s", " ", "b", "e", "e", "n", " ", "c", "r", "e", "a", "t", "e", "d", " ", "t", "i", "t", "l", "e", "d", " ", "<", "s", "t", "r", "o", "n", "g", ">", "\"">> \o JSToString(title)
                  \o <<"\"", "<", "/", "s", "t", "r", "o", "n", "g", ">", ".", "<", "/", "p", ">", "<", "p", ">", "V", "i", "e", "w", " ", "i", "t", " ", "a", "t", ":", " ", "<", "a", " ", "h", "r", "e", "f", "=", "\"">> \o pageUrl \o <<"\"", ">">>
                  \o pageUrl \o <<"<", "/", "a", ">", "<", "/", "p", ">">>]

\* body: req.body; writeOk: whether fs.writeFileSync succeeds when the
\* directory exists
PostNewJs(body, writeOk) ==
    LET timestamp == generateTimestamp(DateAt(now))
        filePath == pathJoin(dataDir, <<"p", "a", "g", "e", "-">> \o timestamp \o <<".", "h", "t", "m", "l">>)
        content == htmlContent(htmlTemplate, body.title, body.message.s)
        pageUrl == <<"h", "t", "t", "p", ":", "/", "/">> \o JSToString(config.domain) \o <<"/">> \o timestamp
    IN  IF PostInvalid(body)
        THEN /\ last' = Respond("POST /new", body, <<>>, <<>>, 400,
                                "application/json", JsonTitleAndMessageRequired, {}, FALSE)
             /\ UNCHANGED <<startVars, call, dataDirExists, files, now, created, written,
                            transports, outbox>>
        ELSE IF PostThrowsBeforeWrite(body) \/ ~dataDirExists \/ ~writeOk
        THEN /\ last' = Respond("POST /new", body, <<>>, <<>>, 500,
                                "application/json", JsonFailedToCreatePage,
                                {"Error creating page:"}, ~PostThrowsBeforeWrite(body))
             /\ UNCHANGED <<startVars, call, dataDirExists, files, now, created, written,
                            transports, outbox>>
        ELSE /\ created < MaxRequests
             /\ ConfigIncomplete(config) \/ Len(outbox) < MaxMails
             /\ files' = writeFileSync(files, filePath, content)
             /\ written' = (timestamp :> Append(IF timestamp \in DOMAIN written
                                                 THEN written[timestamp] ELSE <<>>,
                                                 [title |-> body.title,
                                                  message |-> body.message.s,
                                                  content |-> content]))
                                @@ written
             /\ transports' = IF ConfigIncomplete(config) THEN transports
                              ELSE Append(transports, TransportOptionsJs(config))
             /\ outbox' = IF ConfigIncomplete(config) THEN outbox
                          ELSE Append(outbox, [mail |-> MailOptionsJs(config, pageUrl, body.title),
                                               promise |-> "pending", log |-> {}])
             /\ created' = created + 1
             /\ last' = Respond("POST /new", body, <<>>, timestamp, 204, "", <<>>,
                                {"Page created:"} \cup sendEmailLog(config), FALSE)
             /\ UNCHANGED <<startVars, call, dataDirExists, now>>

\* GET /:pageId of index.js is the handler of index.ts word for word
GetPageJs(pageId, readOk) == GetPage(pageId, readOk)

InitJs ==
    \E e \in Environments :
        /\ HASH_LENGTH = 0
        /\ config = StartConfigJs(e)
        /\ dataDir = StartDataDirJs(e)
        /\ htmlTemplate = TemplateFiles[templateFile(e)]
        /\ homeTemplate = <<>>
        /\ notFoundTemplate = <<>>
        /\ dataDirExists \in BOOLEAN
        /\ files = <<>>
        /\ now = 0
        /\ created = 0
        /\ last = NoRequest
        /\ written = <<>>
        /\ transports = <<>>
        /\ outbox = <<>>
        /\ startLog = {}
        /\ call = NoCall
        /\ pc = "listening"
        /\ env = e
        /\ disk = [FineDisk EXCEPT !.dataDir = IF dataDirExists THEN "exists" ELSE "failing"]

(***************************************************************************)
(* The requests of the model                                               *)
(***************************************************************************)
PostBodies ==
    { NoBody,
      Body(Undefined, Str(<<"a">>)),
      Body(Str(<<"H", "i">>), Undefined),
      Body(Str(<<"H", "i">>), Str(<<>>)),
      Body(Str(<<"H", "i">>), Num(7)),
      Body(Str(<<"H", "i">>), Str(<<"a", "\r", "\n", "b", "\n", "c">>)),
      Body(Str(<<"H", "i">>), Str(<<"<", "H", "T", "M", "L", ">", "x", "\n", "y">>)) }

\* the ids of GET /:pageId: those of the pages written so far and one of no
\* page; none of them names a file of the public directory, which
\* express.static would serve first
GetIds == DOMAIN written \cup { <<"n", "o", "p", "e">> }

\* Math.random and fs.writeFileSync are called only once the body has passed
\* the validation: for the other bodies one pair of outcomes stands for all;
\* the random value plays no part when the write fails
PostInputs ==
    { <<body, random, writeOk>> \in PostBodies \X RandomValues \X BOOLEAN :
          /\ (PostInvalid(body) \/ PostThrowsBeforeWrite(body)) => (random = 1 /\ writeOk)
          /\ ~writeOk => random = 1 }

Next ==
    \/ \E in \in PostInputs : PostNew(in[1], in[2], in[3])
    \/ \E pageId \in GetIds, readOk \in BOOLEAN : GetPage(pageId, readOk)
    \/ GetHome
    \/ NoRoute
    \/ Tick
    \/ \E i \in DOMAIN outbox, ok \in BOOLEAN : SendMailSettles(i, ok)

Spec == Init /\ [][Next]_vars

\* index.js serves POST /new and GET /:pageId only
NextJs ==
    \/ \E body \in PostBodies, writeOk \in BOOLEAN : PostNewJs(body, writeOk)
    \/ \E pageId \in GetIds, readOk \in BOOLEAN : GetPageJs(pageId, readOk)
    \/ Tick
    \/ \E i \in DOMAIN outbox, ok \in BOOLEAN : SendMailSettles(i, ok)

SpecJs == InitJs /\ [][NextJs]_vars

(***************************************************************************)
(* The module code of index.ts, from the first line to app.listen          *)
(***************************************************************************)
\* process.env of the start-ups of the model
StartEnvironments ==
    { [NoEnv EXCEPT !.HASH_LENGTH = h, !.NODE_ENV = n] :
          h \in {Undefined, Str(<<>>), Str(<<"1", "6">>), Str(<<"2", "5", "6">>), Str(<<"1", "5">>), Str(<<"2", "5", "7">>),
                 Str(<<"a", "b", "c">>), Str(<<"2", "0", "a", "b", "c">>), Str(<<"-", "2", "0">>)},
          n \in {Undefined, Str(<<"t", "e", "s", "t">>), Str(<<"p", "r", "o", "d", "u", "c", "t", "i", "o", "n">>)} }
    \cup { [NoEnv EXCEPT !.SMTP_HOST = Str(<<"m", "x">>), !.SMTP_PORT = Str(<<"5", "8", "7">>),
                         !.EMAIL_FROM = Str(<<"a", "@", "b">>), !.EMAIL_TO = Str(<<"c", "@", "d">>),
                         !.DOMAIN_NAME = Str(<<"x", ".", "i", "o">>)] }

\* the module is loaded: the constants of lines 9-55 are computed from
\* process.env, HASH_LENGTH has its initial value and the templates are not
\* assigned yet (the empty string stands for the unassigned variable)
InitStart ==
    \E e \in StartEnvironments, d \in Disks :
        /\ pc = "start"
        /\ env = e
        /\ disk = d
        /\ HASH_LENGTH = DefaultHashLength
        /\ config = StartConfig(e)
        /\ dataDir = StartDataDir(e)
        /\ htmlTemplate = <<>>
        /\ homeTemplate = <<>>
        /\ notFoundTemplate = <<>>
        /\ dataDirExists = (d.dataDir = "exists")
        /\ files = <<>>
        /\ now = 0
        /\ created = 0
        /\ last = NoRequest
        /\ written = <<>>
        /\ transports = <<>>
        /\ outbox = <<>>
        /\ startLog = {}
        /\ call = NoCall

\* index.ts 28-38: HASH_LENGTH is taken from process.env or stays the default
ReadHashLength ==
    /\ pc = "start"
    /\ HASH_LENGTH' = StartHashLength(env)
    /\ startLog' = startLog \cup (IF HashLengthInvalid(env)
                                   THEN {"Invalid HASH_LENGTH value"} ELSE {})
    /\ pc' = "dataDir"
    /\ UNCHANGED <<config, dataDir, htmlTemplate, homeTemplate, notFoundTemplate, env, disk,
                   dataDirExists, files, now, created, last, written, transports, outbox, call>>

\* a variant that rethrows the error of mkdirSync in every NODE_ENV
EnsureDataDirStrict ==
    /\ pc = "dataDir"
    /\ dataDirExists' = (disk.dataDir # "failing")
    /\ startLog' = startLog \cup {IF disk.dataDir = "failing"
                                   THEN "Failed to create data directory"
                                   ELSE "Data directory created/confirmed"}
    /\ pc' = IF disk.dataDir = "failing" THEN "aborted" ELSE "templates"
    /\ UNCHANGED <<HASH_LENGTH, config, dataDir, htmlTemplate, homeTemplate, notFoundTemplate,
                   env, disk, files, now, created, last, written, transports, outbox, call>>

\* index.ts 57-69: the data directory is created if it is not there; an error
\* of mkdirSync is logged and rethrown only when NODE_ENV is "test"
EnsureDataDir ==
    /\ pc = "dataDir"
    /\ dataDirExists' = (disk.dataDir # "failing")
    /\ startLog' = startLog \cup {IF disk.dataDir = "failing"
                                   THEN "Failed to create data directory"
                                   ELSE "Data directory created/confirmed"}
    /\ pc' = IF disk.dataDir = "failing" /\ env.NODE_ENV = Str(<<"t", "e", "s", "t">>)
             THEN "aborted" ELSE "templates"
    /\ UNCHANGED <<HASH_LENGTH, config, dataDir, htmlTemplate, homeTemplate, notFoundTemplate,
                   env, disk, files, now, created, last, written, transports, outbox, call>>

\* index.ts 71-97: the template directory is created if it is not there and
\* each required template must exist; any error is logged and rethrown
EnsureTemplates ==
    /\ pc = "templates"
    /\ startLog' = startLog
                     \cup (IF disk.templateDir = "failing" THEN {}
                           ELSE {"Template directory created/confirmed"})
                     \cup (IF disk.templateDir # "failing" /\ disk.present # RequiredTemplates
                           THEN {"Template file not found"} ELSE {})
                     \cup (IF disk.templateDir = "failing" \/ disk.present # RequiredTemplates
                           THEN {"Template setup error"} ELSE {})
    /\ pc' = IF disk.templateDir = "failing" \/ disk.present # RequiredTemplates
             THEN "aborted" ELSE "load"
    /\ UNCHANGED <<HASH_LENGTH, config, dataDir, htmlTemplate, homeTemplate, notFoundTemplate,
                   env, disk, dataDirExists, files, now, created, last, written, transports,
                   outbox, call>>

\* a variant that goes on with the templates it could read
LoadTemplatesWithFallback ==
    /\ pc = "load"
    /\ htmlTemplate' = IF "default" \in disk.readable
                       THEN TemplateFiles[templateFile(env)] ELSE htmlTemplate
    /\ homeTemplate' = IF "home" \in disk.readable
                       THEN TemplateFiles[<<"h", "o", "m", "e", ".", "h", "t", "m", "l">>] ELSE homeTemplate
    /\ notFoundTemplate' = IF "404" \in disk.readable
                           THEN TemplateFiles[<<"4", "0", "4", ".", "h", "t", "m", "l">>] ELSE notFoundTemplate
    /\ startLog' = startLog \cup {IF RequiredTemplates \subseteq disk.readable
                                   THEN "HTML templates loaded successfully"
                                   ELSE "Failed to load HTML templates"}
    /\ pc' = "middleware"
    /\ UNCHANGED <<HASH_LENGTH, config, dataDir, env, disk, dataDirExists, files, now, created,
                   last, written, transports, outbox, call>>

\* index.ts 99-113: the three templates are read in order; the first read
\* that fails is logged and rethrown, the variables before it are assigned
LoadTemplates ==
    /\ pc = "load"
    /\ htmlTemplate' = IF "default" \in disk.readable
                       THEN TemplateFiles[templateFile(env)] ELSE htmlTemplate
    /\ homeTemplate' = IF {"default", "home"} \subseteq disk.readable
                       THEN TemplateFiles[<<"h", "o", "m", "e", ".", "h", "t", "m", "l">>] ELSE homeTemplate
    /\ notFoundTemplate' = IF RequiredTemplates \subseteq disk.readable
                           THEN TemplateFiles[<<"4", "0", "4", ".", "h", "t", "m", "l">>] ELSE notFoundTemplate
    /\ startLog' = startLog \cup {IF RequiredTemplates \subseteq disk.readable
                                   THEN "HTML templates loaded successfully"
                                   ELSE "Failed to load HTML templates"}
    /\ pc' = IF RequiredTemplates \subseteq disk.readable THEN "middleware" ELSE "aborted"
    /\ UNCHANGED <<HASH_LENGTH, config, dataDir, env, disk, dataDirExists, files, now, created,
                   last, written, transports, outbox, call>>

\* index.ts 115-232: the middleware and the routes are registered; an error of
\* the public directory is only logged; the application takes requests
Listen ==
    /\ pc = "middleware"
    /\ startLog' = startLog \cup {IF disk.publicDir = "failing"
                                   THEN "Failed to create public directory"
                                   ELSE "Public directory confirmed"}
    /\ pc' = "listening"
    /\ UNCHANGED <<HASH_LENGTH, config, dataDir, htmlTemplate, homeTemplate, notFoundTemplate,
                   env, disk, dataDirExists, files, now, created, last, written, transports,
                   outbox, call>>

\* POST /new with a valid body when nodemailer.createTransport throws inside
\* sendEmail (helpers.ts 37): the page is written, the async function returns
\* a rejected promise that index.ts 185 neither awaits nor catches, and the
\* handler answers 204
PostNewTransportThrows(body, random) ==
    LET pageId == generatePageId(HASH_LENGTH, now, random)
        filePath == postFilePath(dataDir, pageId)
        content == htmlContent(htmlTemplate, body.title, body.message.s)
    IN  /\ pc = "listening"
        /\ ~PostInvalid(body) /\ ~PostThrowsBeforeWrite(body)
        /\ dataDirExists
        /\ ~ConfigIncomplete(config)
        /\ created < MaxRequests
        /\ files' = writeFileSync(files, filePath, content)
        /\ written' = (pageId :> Append(IF pageId \in DOMAIN written
                                         THEN written[pageId] ELSE <<>>,
                                         [title |-> body.title,
                                          message |-> body.message.s,
                                          content |-> content]))
                           @@ written
        /\ transports' = sendEmailTransports(config, transports)
        /\ created' = created + 1
        /\ last' = Respond("POST /new", body, <<>>, pageId, 204, "", <<>>,
                           {"Page created:", "Page URL:"}, FALSE)
        /\ pc' = "rejection"
        /\ UNCHANGED <<HASH_LENGTH, config, dataDir, htmlTemplate, homeTemplate,
                       notFoundTemplate, startLog, env, disk, call, dataDirExists, now,
                       outbox>>

\* the handler has returned and the rejection is still unhandled: Node (22
\* in the Dockerfile) raises it as an uncaught exception and the process ends
UnhandledRejection ==
    /\ pc = "rejection"
    /\ pc' = "exited"
    /\ UNCHANGED <<HASH_LENGTH, config, dataDir, htmlTemplate, homeTemplate, notFoundTemplate,
                   startLog, env, disk, call, dataDirExists, files, now, created, last,
                   written, transports, outbox>>

\* the bodies of the requests after a start-up
StartPostBodies == {Body(Str(<<"H", "i">>), Str(<<"a">>))}

\* the start-up, then the requests the routes take once they are registered
NextStart ==
    \/ ReadHashLength
    \/ EnsureDataDir
    \/ EnsureTemplates
    \/ LoadTemplates
    \/ Listen
    \/ \E body \in StartPostBodies :
           pc = "listening" /\ created = 0 /\ PostNew(body, 1, TRUE)
    \/ pc = "listening" /\ last = NoRequest /\ GetHome
    \/ \E pageId \in GetIds : pc = "listening" /\ last.method = "POST /new" /\ GetPage(pageId, TRUE)
    \/ \E body \in StartPostBodies : created = 0 /\ PostNewTransportThrows(body, 1)
    \/ UnhandledRejection

SpecStart == InitStart /\ [][NextStart]_vars

(***************************************************************************)
(* The server among the other files of its machine                         *)
(***************************************************************************)
\* __dirname of the compiled dist/index.js: /usr/src/app/dist in the image of
\* the Dockerfile (NODE_ENV=production), dist under the working directory of
\* a local run
dirname(e) ==
    IF e.NODE_ENV = Str(<<"p", "r", "o", "d", "u", "c", "t", "i", "o", "n">>) THEN <<"/", "u", "s", "r", "/", "s", "r", "c", "/", "a", "p", "p", "/", "d", "i", "s", "t">> ELSE <<"d", "i", "s", "t">>

\* index.ts 51: path.join(__dirname, "..", "templates")
templateDir(e) == pathJoin(pathJoin(dirname(e), <<".", ".">>), <<"t", "e", "m", "p", "l", "a", "t", "e", "s">>)

\* the files of the template directory under their paths
TemplateStore(e) ==
    [p \in {pathJoin(templateDir(e), n) : n \in DOMAIN TemplateFiles} |->
        TemplateFiles[CHOOSE n \in DOMAIN TemplateFiles : pathJoin(templateDir(e), n) = p]]

\* req.params.pageId as the router decodes it: %2F of the URL is a slash
PathIds ==
    { <<"n", "o", "p", "e">>, <<".", ".">>, <<".", ".", "/", "x">>,
      <<"a", "/", ".", ".", "/", ".", ".", "/", "t", "e", "m", "p", "l", "a", "t", "e", "s", "/", "h", "o", "m", "e">>,
      <<"a", "/", ".", ".", "/", ".", ".", "/", ".", ".", "/", ".", ".", "/", "u", "s", "r", "/", "s", "r", "c", "/", "a", "p", "p", "/", "t", "e", "m", "p", "l", "a", "t", "e", "s", "/", "h", "o", "m", "e">> }

\* the server is started and the template files it has loaded are on disk
InitPaths ==
    \E e \in Environments :
        /\ HASH_LENGTH = StartHashLength(e)
        /\ config = StartConfig(e)
        /\ dataDir = StartDataDir(e)
        /\ htmlTemplate = TemplateFiles[templateFile(e)]
        /\ homeTemplate = TemplateFiles[<<"h", "o", "m", "e", ".", "h", "t", "m", "l">>]
        /\ notFoundTemplate = TemplateFiles[<<"4", "0", "4", ".", "h", "t", "m", "l">>]
        /\ dataDirExists \in BOOLEAN
        /\ files = TemplateStore(e)
        /\ now = 0
        /\ created = 0
        /\ last = NoRequest
        /\ written = <<>>
        /\ transports = <<>>
        /\ outbox = <<>>
        /\ startLog = IF HashLengthInvalid(e) THEN {"Invalid HASH_LENGTH value"} ELSE {}
        /\ call = NoCall
        /\ pc = "listening"
        /\ env = e
        /\ disk = [FineDisk EXCEPT !.dataDir = IF dataDirExists THEN "exists" ELSE "failing"]

NextPaths ==
    \/ \E pageId \in PathIds \cup DOMAIN written, readOk \in BOOLEAN : GetPage(pageId, readOk)
    \/ \E body \in StartPostBodies, random \in RandomValues :
           created = 0 /\ PostNew(body, random, TRUE)
    \/ Tick

SpecPaths == InitPaths /\ [][NextPaths]_vars

(***************************************************************************)
(* helpers.ts called directly, as its importers and tests call it          *)
(***************************************************************************)
\* the templates of the direct calls of applyTemplate
CallTemplates ==
    { <<"<", "h", "1", ">", "{", "{", "t", "i", "t", "l", "e", "}", "}", "<", "/", "h", "1", ">", "<", "p", ">", "{", "{", "m", "e", "s", "s", "a", "g", "e", "}", "}", "<", "/", "p", ">">>,
      <<>>, <<"p", "l", "a", "i", "n", " ", "t", "e", "x", "t">>, <<"H", "e", "l", "l", "o", " ", "{", "{", "n", "a", "m", "e", "}", "}">>, <<"H", "e", "l", "l", "o", " ", "{", "{", "m", "i", "s", "s", "i", "n", "g", "}", "}">>, <<"{", "{", "a", "}", "}", "{", "{", "a", "}", "}", "-", "{", "{", "b", "}", "}">>,
      <<"{", "{", "b", "}", "}", "{", "{", "a", "}", "}">>, <<"{", "{", "t", "o", "S", "t", "r", "i", "n", "g", "}", "}">>, <<"{", "{", "c", "o", "n", "s", "t", "r", "u", "c", "t", "o", "r", "}", "}", "!">>, <<"{", "{", "a", "}">>, <<"{", "{", "{", "a", "}", "}", "}">>, <<"{", "{", " ", "a", " ", "}", "}">>,
      <<"{", "{", "a", "-", "b", "}", "}">>, <<"<", "p", ">", "{", "{", "_", "_", "p", "r", "o", "t", "o", "_", "_", "}", "}", "<", "/", "p", ">">> }

\* the maps of the direct calls of applyTemplate: Record<string, string>
CallData ==
    { (<<"t", "i", "t", "l", "e">> :> Str(<<"{", "{", "m", "e", "s", "s", "a", "g", "e", "}", "}">>)) @@ (<<"m", "e", "s", "s", "a", "g", "e">> :> Str(<<"{", "{", "t", "i", "t", "l", "e", "}", "}">>)),
      <<>>,
      (<<"n", "a", "m", "e">> :> Str(<<"W", "o", "r", "l", "d">>)),
      (<<"a">> :> Str(<<"1">>)),
      (<<"a">> :> Str(<<>>)) @@ (<<"b">> :> Str(<<"{", "{", "a", "}", "}">>)),
      (<<"a">> :> Str(<<"x">>)) @@ (<<"b">> :> Str(<<"y">>)),
      (<<"m", "i", "s", "s", "i", "n", "g">> :> Str(<<"f", "o", "u", "n", "d">>)),
      (<<"t", "o", "S", "t", "r", "i", "n", "g">> :> Str(<<"T">>)),
      (<<"n", "a", "m", "e">> :> Str(<<"{", "{", "n", "a", "m", "e", "}", "}">>)) @@ (<<"a">> :> Str(<<"A">>)) }

\* the lengths the server passes to generatePageId
HashLengths == MinHashLength..MaxHashLength

\* the functions are pure: one call per run says all about them
ApplyTemplateCall(template, data) ==
    /\ call = NoCall
    /\ call' = [NoCall EXCEPT !.fn = "applyTemplate", !.template = template, !.data = data,
                              !.result = applyTemplate(template, data)]
    /\ UNCHANGED <<startVars, dataDirExists, files, now, created, last, written,
                   transports, outbox>>

GeneratePageIdCall(hashLength, random) ==
    /\ call = NoCall
    /\ call' = [NoCall EXCEPT !.fn = "generatePageId", !.hashLength = hashLength,
                              !.result = generatePageId(hashLength, now, random)]
    /\ UNCHANGED <<startVars, dataDirExists, files, now, created, last, written,
                   transports, outbox>>

\* the configurations of the direct calls of sendEmail: IConfig
CallConfigs ==
    { [smtp |-> [host |-> Str(h), port |-> Str(p), user |-> Str(u), pass |-> Str(w)],
       domain |-> Str(<<"x", ".", "i", "o">>),
       email |-> [from |-> Str(f), to |-> Str(t)]] :
          h \in {<<>>, <<"m", "x">>}, p \in {<<>>, <<"4", "6", "5">>, <<"5", "8", "7">>, <<"0", "4", "6", "5">>},
          u \in {<<>>, <<"u">>}, w \in {<<>>, <<"p", "w">>},
          f \in {<<>>, <<"a", "@", "b">>}, t \in {<<>>, <<"c", "@", "d">>} }

CallPageUrls == {<<"h", "t", "t", "p", ":", "/", "/", "x", ".", "i", "o", "/", "a", "b", "1", "2">>}

CallTitles == {Str(<<"H", "i">>), Str(<<>>)}

\* sendEmail(cfg, pageUrl, title) up to its await. transportOk says whether
\* nodemailer.createTransport returns; when it throws, the exception leaves
\* the async function, whose promise is rejected, and nothing is logged
SendEmailCall(cfg, pageUrl, title, transportOk) ==
    /\ call = NoCall
    /\ transports' = sendEmailTransports(cfg, transports)
    /\ outbox' = IF transportOk THEN sendEmailOutbox(cfg, pageUrl, title, outbox) ELSE outbox
    /\ call' = [NoCall EXCEPT !.fn = "sendEmail", !.config = cfg, !.pageUrl = pageUrl,
                              !.title = title,
                              !.promise = IF ConfigIncomplete(cfg) THEN "resolved"
                                          ELSE IF transportOk THEN "pending" ELSE "rejected",
                              !.log = sendEmailLog(cfg)]
    /\ UNCHANGED <<startVars, dataDirExists, files, now, created, last, written>>

\* the promise of transporter.sendMail settles: sendEmail logs the outcome in
\* its try or in its catch and returns
SendEmailReturns(ok) ==
    /\ call.fn = "sendEmail"
    /\ call.promise = "pending"
    /\ outbox' = [outbox EXCEPT ![Len(outbox)].promise = IF ok THEN "resolved" ELSE "rejected",
                                ![Len(outbox)].log = {IF ok THEN "Email sent:" ELSE "Error sending email:"}]
    /\ call' = [call EXCEPT !.promise = "resolved",
                            !.log = {IF ok THEN "Email sent:" ELSE "Error sending email:"}]
    /\ UNCHANGED <<startVars, dataDirExists, files, now, created, last, written, transports>>

\* the text configuration of generateOpenGraphImage; 60 * 1.2 and 60 * 0.6
\* are the doubles 72 and 36
fontSize == 60
startX == 330
startY == 20
maxWidth == 1280 - startX - 20
maxHeight == 720 - 20
lineHeight == (fontSize * 12) \div 10
charWidth == (fontSize * 6) \div 10
maxCharsPerLine == maxWidth \div charWidth
maxLines == (maxHeight - startY) \div lineHeight

\* s.split(" ") from index i on
RECURSIVE SplitSpace(_, _)
SplitSpace(s, i) ==
    LET spaces == {j \in i..Len(s) : s[j] = " "}
    IN  IF spaces = {} THEN <<SubSeq(s, i, Len(s))>>
        ELSE <<SubSeq(s, i, Least(spaces) - 1)>> \o SplitSpace(s, Least(spaces) + 1)

\* the loop over the words from word i on, with the lines pushed so far and
\* the current line, and the push of the last line behind the loop
RECURSIVE WrapWords(_, _, _, _)
WrapWords(words, i, lines, currentLine) ==
    IF i > Len(words)
    THEN IF currentLine # <<>> THEN Append(lines, currentLine) ELSE lines
    ELSE LET word == words[i]
             testLine == currentLine \o (IF currentLine # <<>> THEN <<" ">> ELSE <<>>) \o word
         IN  IF Len(testLine) <= maxCharsPerLine
             THEN WrapWords(words, i + 1, lines, testLine)
             ELSE IF currentLine # <<>>
             THEN WrapWords(words, i + 1, Append(lines, currentLine), word)
             ELSE WrapWords(words, i + 1,
                            Append(lines, substring(word, 0, maxCharsPerLine - 3) \o <<".", ".", ".">>),
                            <<>>)

\* lines.slice(0, maxLines), with the ellipsis on the last line when lines
\* were cut
finalLines(title) ==
    LET lines == WrapWords(SplitSpace(title, 1), 1, <<>>, <<>>)
        kept == SubSeq(lines, 1, Min(Len(lines), maxLines))
    IN  IF Len(lines) > maxLines /\ Len(kept) > 0
        THEN LET lastLine == kept[Len(kept)]
             IN  [kept EXCEPT ![Len(kept)] = IF Len(lastLine) > 50
                                             THEN substring(lastLine, 0, 47) \o <<".", ".", ".">>
                                             ELSE lastLine \o <<".", ".", ".">>]
        ELSE kept

\* the titles of the direct calls of generateOpenGraphImage
CallImageTitles ==
    { <<>>, <<"H", "i">>, <<"N", "e", "w", " ", "p", "a", "g", "e", " ", "f", "o", "r", " ", "y", "o", "u">>, <<"y", "y", "y", "y", "y", "y", "y", "y", "y", "y", "y", "y", "y", "y", "y", "y", "y", "y", "y", "y", "y", "y", "y", "y", "y", "y", "y", "y", "y", "y">>, <<"H", "i", " ", "x", "x", "x", "x", "x", "x", "x", "x", "x", "x", "x", "x", "x", "x", "x", "x", "x", "x", "x", "x", "x", "x", "x", "x", "x", "x", " ", "t", "h", "e", "r", "e">>,
      <<"a", "b", "c", "d", "e", "f", "g", "h", "i", "j", "k", "l", "m", " ", "a", "b", "c", "d", "e", "f", "g", "h", "i", "j", "k", "l", "m", " ", "a", "b", "c", "d", "e", "f", "g", "h", "i", "j", "k", "l", "m", " ", "a", "b", "c", "d", "e", "f", "g", "h", "i", "j", "k", "l", "m", " ", "a", "b", "c", "d", "e", "f", "g", "h", "i", "j", "k", "l", "m", " ", "a", "b", "c", "d", "e", "f", "g", "h", "i", "j", "k", "l", "m", " ", "a", "b", "c", "d", "e", "f", "g", "h", "i", "j", "k", "l", "m", " ", "a", "b", "c", "d", "e", "f", "g", "h", "i", "j", "k", "l", "m", " ", "a", "b", "c", "d", "e", "f", "g", "h", "i", "j", "k", "l", "m", " ", "a", "b", "c", "d", "e", "f", "g", "h", "i", "j", "k", "l", "m">> }

\* generateOpenGraphImage(outputDir, pageId, title): without the template
\* picture nothing is drawn and null is returned; otherwise the lines of the
\* title are drawn and sharp writes the picture, or throws, which is caught
GenerateOpenGraphImageCall(title, outcome) ==
    /\ call = NoCall
    /\ call' = [NoCall EXCEPT !.fn = "generateOpenGraphImage", !.title = Str(title),
                              !.result = IF outcome = "no template" THEN <<>>
                                         ELSE finalLines(title),
                              !.promise = "resolved",
                              !.log = {CASE outcome = "no template" -> "Open graph template not found:"
                                         [] outcome = "written" -> "Open graph image generated:"
                                         [] outcome = "failed" -> "Error generating open graph image:"}]
    /\ UNCHANGED <<startVars, dataDirExists, files, now, created, last, written,
                   transports, outbox>>

NextHelpers ==
    \/ \E template \in CallTemplates, data \in CallData : ApplyTemplateCall(template, data)
    \/ \E hashLength \in HashLengths, random \in RandomValues :
           GeneratePageIdCall(hashLength, random)
    \/ \E cfg \in CallConfigs, pageUrl \in CallPageUrls, title \in CallTitles,
          transportOk \in BOOLEAN :
           /\ (ConfigIncomplete(cfg) => transportOk)
           /\ SendEmailCall(cfg, pageUrl, title, transportOk)
    \/ \E ok \in BOOLEAN : SendEmailReturns(ok)
    \/ \E title \in CallImageTitles, outcome \in {"no template", "written", "failed"} :
           GenerateOpenGraphImageCall(title, outcome)
    \/ Tick

SpecHelpers == Init /\ [][NextHelpers]_vars

(***************************************************************************)
(* Vocabulary of the properties                                            *)
(***************************************************************************)
IsPost == last.method = "POST /new"
IsGet == last.method = "GET /:pageId"

\* a JSON value that is a string with at least one character
NonEmptyString(v) == v.t = "string" /\ v.s # <<>>

\* a field of the body that is absent or the empty string
Missing(v) == v = Undefined \/ v = Str(<<>>)

\* sub occurs in s at index i
OccursAt(s, sub, i) ==
    i >= 1 /\ i + Len(sub) - 1 <= Len(s) /\ SubSeq(s, i, i + Len(sub) - 1) = sub

Occurs(s, sub) == \E i \in 1..(Len(s) + 1) : OccursAt(s, sub, i)

\* the five characters "<html" in any mix of upper and lower case
ContainsHtmlTag(s) ==
    \E i \in 1..Len(s) :
        /\ i + 4 <= Len(s)
        /\ s[i] = "<"
        /\ s[i + 1] \in {"h", "H"}
        /\ s[i + 2] \in {"t", "T"}
        /\ s[i + 3] \in {"m", "M"}
        /\ s[i + 4] \in {"l", "L"}

\* the file of the page of an id, as POST /new names it
PageFile(id) == postFilePath(dataDir, id)
PageStored(id) == PageFile(id) \in DOMAIN files

\* what the last request answered 204 for an id wrote
LastWritten(id) == written[id][Len(written[id])]

Greatest(S) == CHOOSE x \in S : \A y \in S : x >= y

\* a text with each of its line feeds turned into <br/>, last one first
RECURSIVE LineFeedsAsBr(_)
LineFeedsAsBr(s) ==
    LET feeds == {j \in 1..Len(s) : s[j] = "\n"}
    IN  IF feeds = {} THEN s
        ELSE LineFeedsAsBr(SubSeq(s, 1, Greatest(feeds) - 1)) \o <<"<", "b", "r", "/", ">">>
                 \o SubSeq(s, Greatest(feeds) + 1, Len(s))

\* a template with its {{title}} and {{message}} placeholders filled in
RECURSIVE Filled(_, _, _, _)
Filled(template, title, message, i) ==
    LET hits == {j \in i..Len(template) :
                     OccursAt(template, <<"{", "{", "t", "i", "t", "l", "e", "}", "}">>, j) \/ OccursAt(template, <<"{", "{", "m", "e", "s", "s", "a", "g", "e", "}", "}">>, j)}
    IN  IF hits = {} THEN SubSeq(template, i, Len(template))
        ELSE LET j == Least(hits)
             IN  SubSeq(template, i, j - 1)
                     \o (IF OccursAt(template, <<"{", "{", "t", "i", "t", "l", "e", "}", "}">>, j)
                         THEN title \o Filled(template, title, message, j + Len(<<"{", "{", "t", "i", "t", "l", "e", "}", "}">>))
                         ELSE message \o Filled(template, title, message, j + Len(<<"{", "{", "m", "e", "s", "s", "a", "g", "e", "}", "}">>)))

\* a POST /new whose title and message are non-empty strings
ValidPost ==
    /\ IsPost
    /\ last.body.present
    /\ NonEmptyString(last.body.title)
    /\ NonEmptyString(last.body.message)

(***************************************************************************)
(* C1                                                                      *)
(***************************************************************************)
\* C1 as stated: every POST /new with a non-empty title and message is
\* answered 204 with an empty body, and every GET of an id under which such a
\* request stored its page is answered 200 with content containing the
\* title of that request.
C1_CreateThenGet ==
    /\ ValidPost => last.status = 204 /\ last.resBody = <<>>
    /\ (IsGet /\ last.pageId \in DOMAIN written) =>
           /\ last.status = 200
           /\ \A k \in DOMAIN written[last.pageId] :
                  Occurs(last.resBody, written[last.pageId][k].title.s)

\* C1 narrowed to what holds: a POST /new with a non-empty title and message is
\* answered 204 with an empty body when the page file is written and 500 when
\* writing it fails; a GET of the id of a written page that reads the file is
\* answered 200 with the content last written under that id, which contains
\* the title when the message had no "<html" and the template has {{title}}.
C1_CreateThenGetWhenWritten ==
    /\ ValidPost =>
           IF last.ioFailed
           THEN last.status = 500
           ELSE /\ last.status = 204
                /\ last.resBody = <<>>
                /\ last.newId \in DOMAIN written
                /\ PageStored(last.newId)
    /\ (IsGet /\ last.pageId \in DOMAIN written /\ ~last.ioFailed) =>
           /\ last.status = 200
           /\ last.resBody = LastWritten(last.pageId).content
           /\ (/\ ~ContainsHtmlTag(LastWritten(last.pageId).message)
               /\ Occurs(htmlTemplate, <<"{", "{", "t", "i", "t", "l", "e", "}", "}">>))
                  => Occurs(last.resBody, LastWritten(last.pageId).title.s)

\* a GET has returned a templated page that shows its title
C1_Witness ==
    /\ IsGet
    /\ last.status = 200
    /\ last.pageId \in DOMAIN written
    /\ ~ContainsHtmlTag(LastWritten(last.pageId).message)
    /\ Occurs(last.resBody, <<"<", "h", "1", ">", "H", "i", "<", "/", "h", "1", ">">>)

(***************************************************************************)
(* C2                                                                      *)
(***************************************************************************)
\* C2 as stated: a POST /new whose title or message is missing (no parsed
\* body, field absent, or field empty) is answered 400 with the JSON body
\* {"error":"Title and message are required"}.
C2_MissingFieldIs400 ==
    (IsPost /\ (~last.body.present \/ Missing(last.body.title) \/ Missing(last.body.message)))
        => /\ last.status = 400
           /\ last.resBody = <<"{", "\"", "e", "r", "r", "o", "r", "\"", ":", "\"", "T", "i", "t", "l", "e", " ", "a", "n", "d", " ", "m", "e", "s", "s", "a", "g", "e", " ", "a", "r", "e", " ", "r", "e", "q", "u", "i", "r", "e", "d", "\"", "}">>

(***************************************************************************)
(* C3                                                                      *)
(***************************************************************************)
\* C3: after a POST /new answered 204 whose message contains "<html" in any
\* letter case, the stored page is the message, character for character.
C3_HtmlStoredVerbatim ==
    (IsPost /\ last.status = 204 /\ ContainsHtmlTag(last.body.message.s))
        => /\ PageStored(last.newId)
           /\ files[PageFile(last.newId)] = last.body.message.s

\* an upper-case <HTML> message has been stored as it came
C3_Witness ==
    /\ IsPost
    /\ last.status = 204
    /\ Occurs(last.body.message.s, <<"<", "H", "T", "M", "L">>)
    /\ PageStored(last.newId)
    /\ files[PageFile(last.newId)] = last.body.message.s

(***************************************************************************)
(* C4                                                                      *)
(***************************************************************************)
\* C4: after a POST /new answered 204 whose message contains no "<html", the
\* stored page is the template with {{title}} replaced by the title and
\* {{message}} by the message in which every line feed has become <br/>.
C4_PlainTextTemplated ==
    (IsPost /\ last.status = 204 /\ ~ContainsHtmlTag(last.body.message.s))
        => /\ PageStored(last.newId)
           /\ files[PageFile(last.newId)] =
                  Filled(htmlTemplate, last.body.title.s,
                         LineFeedsAsBr(last.body.message.s), 1)
           /\ "\n" \notin Range(LineFeedsAsBr(last.body.message.s))

\* a message of three lines has been stored with two <br/>, its carriage
\* return kept
C4_Witness ==
    /\ IsPost
    /\ last.status = 204
    /\ last.body.message.s = <<"a", "\r", "\n", "b", "\n", "c">>
    /\ PageStored(last.newId)
    /\ Occurs(files[PageFile(last.newId)], <<"a", "\r", "<", "b", "r", "/", ">", "b", "<", "b", "r", "/", ">", "c">>)

(***************************************************************************)
(* C5                                                                      *)
(***************************************************************************)
\* C5 as stated: every GET /:pageId for an id whose page file exists is
\* answered 200 with Content-Type text/html and a body that is exactly the
\* content stored for that id.
C5_ExistingPageServed ==
    (IsGet /\ PageStored(last.pageId))
        => /\ last.status = 200
           /\ last.contentType = "text/html"
           /\ last.resBody = files[PageFile(last.pageId)]

\* C5 narrowed to what holds: a GET /:pageId for an id whose page file exists
\* is answered 200 with Content-Type text/html and exactly the stored content
\* when the file is read without error, and 500 "Error serving page" when
\* reading it fails.
C5_ExistingPageServedWhenRead ==
    (IsGet /\ PageStored(last.pageId))
        => IF last.ioFailed
           THEN last.status = 500 /\ last.resBody = <<"E", "r", "r", "o", "r", " ", "s", "e", "r", "v", "i", "n", "g", " ", "p", "a", "g", "e">>
           ELSE /\ last.status = 200
                /\ last.contentType = "text/html"
                /\ last.resBody = files[PageFile(last.pageId)]

\* a stored page has been read and served
C5_Witness ==
    /\ IsGet
    /\ PageStored(last.pageId)
    /\ ~last.ioFailed
    /\ last.status = 200
    /\ last.resBody = files[PageFile(last.pageId)]
    /\ last.resBody # <<>>

(***************************************************************************)
(* C6                                                                      *)
(***************************************************************************)
\* C6: a GET /:pageId for an id that has no page file is answered 404 with
\* the body "Page not found", and the step leaves every stored page as it was
\* (a step that sets last to a GET is the handling of that GET).
C6_UnknownPageIs404 ==
    [][ (last' # last /\ last'.method = "GET /:pageId" /\ ~PageStored(last'.pageId))
            => /\ last'.status = 404
               /\ last'.resBody = <<"P", "a", "g", "e", " ", "n", "o", "t", " ", "f", "o", "u", "n", "d">>
               /\ files' = files
               /\ written' = written ]_vars

\* an unknown id has been asked for while pages were stored
C6_Witness ==
    /\ IsGet
    /\ ~PageStored(last.pageId)
    /\ last.status = 404
    /\ last.resBody = <<"P", "a", "g", "e", " ", "n", "o", "t", " ", "f", "o", "u", "n", "d">>
    /\ \E id \in DOMAIN written : PageStored(id)

(***************************************************************************)
(* C7                                                                      *)
(***************************************************************************)
\* C7 as stated: generatePageId(L) with 16 <= L <= 256 returns a string of
\* exactly L characters, each of them a hexadecimal digit.
C7_IdHasRequestedLength ==
    (call.fn = "generatePageId" /\ call.hashLength \in MinHashLength..MaxHashLength)
        => /\ Len(call.result) = call.hashLength
           /\ Range(call.result) \subseteq Range(HexDigits)

(***************************************************************************)
(* C8                                                                      *)
(***************************************************************************)
\* applyTemplate as C8 describes it: a {{key}} whose key the map holds becomes
\* the mapped value, every other {{key}} stays as it is
RECURSIVE SubstituteOwnKeys(_, _, _)
SubstituteOwnKeys(template, data, i) ==
    LET matches == {j \in i..Len(template) : MatchLength(template, j) > 0}
    IN  IF matches = {} THEN SubSeq(template, i, Len(template))
        ELSE LET j == Least(matches)
                 m == MatchLength(template, j)
                 key == SubSeq(template, j + 2, j + m - 3)
             IN  SubSeq(template, i, j - 1)
                     \o (IF key \in DOMAIN data THEN data[key].s
                         ELSE SubSeq(template, j, j + m - 1))
                     \o SubstituteOwnKeys(template, data, j + m)

\* C8 as stated: applyTemplate replaces every {{key}} whose key is in the map
\* by the mapped value, repetitions included, and leaves every {{key}} whose
\* key is not in the map unchanged, whatever the name of the key.
C8_OnlyMappedKeysReplaced ==
    call.fn = "applyTemplate"
        => call.result = SubstituteOwnKeys(call.template, call.data, 1)

(***************************************************************************)
(* C9                                                                      *)
(***************************************************************************)
\* C9 as stated: the content of a page never changes after its creation and
\* no request deletes a page: every id ever written still has its file, and
\* the file holds what the first request stored under that id.
C9_PagesImmutable ==
    \A id \in DOMAIN written :
        /\ PageStored(id)
        /\ files[PageFile(id)] = written[id][1].content

(***************************************************************************)
(* C10                                                                     *)
(***************************************************************************)
\* C10 as stated: any two POST /new answered 204, two in the same millisecond
\* included, store under distinct ids, so that the number of stored pages is
\* the number of requests answered 204.
C10_DistinctIds ==
    /\ \A id \in DOMAIN written : Len(written[id]) = 1
    /\ Cardinality(DOMAIN files) = created

(***************************************************************************)
(* C11                                                                     *)
(***************************************************************************)
\* C11: a step of POST /new that persists a page answers 204 while the mail of
\* the request, if one is sent, is still pending at the transport (the handler
\* has not waited), and a step in which the transport delivers or fails a
\* mail leaves the answer as it was.
C11_ResponseIgnoresMail ==
    [][ /\ (written' # written) =>
               /\ last'.method = "POST /new"
               /\ last'.status = 204
               /\ IF ConfigIncomplete(config)
                  THEN outbox' = outbox
                  ELSE /\ Len(outbox') = Len(outbox) + 1
                       /\ outbox'[Len(outbox')].promise = "pending"
        /\ (outbox' # outbox /\ written' = written) => last' = last ]_vars

\* the mail of a page answered 204 has failed at the transport afterwards
C11_Witness ==
    /\ IsPost
    /\ last.status = 204
    /\ PageStored(last.newId)
    /\ outbox # <<>>
    /\ outbox[Len(outbox)].promise = "rejected"

(***************************************************************************)
(* C17                                                                     *)
(***************************************************************************)
\* C17: a POST /new whose write of the page file fails is answered 500 with
\* the body {"error":"Failed to create page"} and nothing more, and the step
\* creates no transport, hands no mail to the transport and stores no page.
C17_WriteFailureIs500 ==
    [][ (last' # last /\ last'.method = "POST /new" /\ last'.ioFailed) =>
            /\ last'.status = 500
            /\ last'.resBody = <<"{", "\"", "e", "r", "r", "o", "r", "\"", ":", "\"", "F", "a", "i", "l", "e", "d", " ", "t", "o", " ", "c", "r", "e", "a", "t", "e", " ", "p", "a", "g", "e", "\"", "}">>
            /\ transports' = transports
            /\ outbox' = outbox
            /\ files' = files
            /\ last'.log = {"Error creating page:"} ]_vars

\* a write has failed in a server whose mail settings are complete
C17_Witness ==
    /\ IsPost
    /\ last.ioFailed
    /\ last.status = 500
    /\ ~ConfigIncomplete(config)
    /\ outbox = <<>>
    /\ transports = <<>>

(***************************************************************************)
(* C12                                                                     *)
(***************************************************************************)
\* C12: the promise of a direct call of sendEmail is never rejected, whether
\* the transport cannot be built or the message cannot be sent.
C12_SendEmailNeverRejects ==
    call.fn = "sendEmail" => call.promise # "rejected"

(***************************************************************************)
(* C13                                                                     *)
(***************************************************************************)
\* C13: a call of sendEmail with an empty host, from-address or to-address
\* calls neither createTransport nor sendMail, logs the skip line and returns;
\* a call with all three non-empty calls createTransport once and, with the
\* transport it returns, sendMail once.
C13_SkipOrSendOnce ==
    call.fn = "sendEmail" =>
        IF \/ call.config.smtp.host = Str(<<>>)
           \/ call.config.email.from = Str(<<>>)
           \/ call.config.email.to = Str(<<>>)
        THEN /\ transports = <<>>
             /\ outbox = <<>>
             /\ call.log = {"SMTP configuration incomplete, skipping email send"}
             /\ call.promise = "resolved"
        ELSE /\ Len(transports) = 1
             /\ Len(outbox) <= 1
             /\ (Len(outbox) = 0) <=> (call.promise = "rejected" /\ call.log = {})
             /\ "SMTP configuration incomplete, skipping email send" \notin call.log

\* a call with only the to-address missing has returned
C13_Witness ==
    /\ call.fn = "sendEmail"
    /\ call.promise = "resolved"
    /\ call.config.smtp.host # Str(<<>>)
    /\ call.config.email.from # Str(<<>>)
    /\ call.config.email.to = Str(<<>>)
    /\ call.log # {}

(***************************************************************************)
(* C14                                                                     *)
(***************************************************************************)
\* C14: the options of every transport a call of sendEmail constructs have
\* secure = true when the configured port is the string 465 and secure = false
\* for every other configured port.
C14_SecureIffPort465 ==
    (call.fn = "sendEmail" /\ transports # <<>>) =>
        (transports[1].secure <=> call.config.smtp.port.s = <<"4", "6", "5">>)

\* a transport for port 465 has been constructed
C14_Witness ==
    /\ call.fn = "sendEmail"
    /\ transports # <<>>
    /\ call.config.smtp.port.s = <<"4", "6", "5">>
    /\ transports[1].secure
    /\ transports[1].port = Num(465)

(***************************************************************************)
(* C15                                                                     *)
(***************************************************************************)
\* C15: the options of every transport a call of sendEmail constructs carry
\* the user and the password when both are non-empty and auth undefined
\* otherwise, and in either case the message is handed to the transport.
C15_AuthIffBothCredentials ==
    (call.fn = "sendEmail" /\ transports # <<>>) =>
        /\ IF call.config.smtp.user.s # <<>> /\ call.config.smtp.pass.s # <<>>
           THEN transports[1].auth = [user |-> call.config.smtp.user,
                                      pass |-> call.config.smtp.pass]
           ELSE transports[1].auth = Undefined
        /\ call.promise # "rejected" => Len(outbox) = 1

\* a message has been handed to a transport built without the password
C15_Witness ==
    /\ call.fn = "sendEmail"
    /\ transports # <<>>
    /\ call.config.smtp.user.s # <<>>
    /\ call.config.smtp.pass.s = <<>>
    /\ transports[1].auth = Undefined
    /\ Len(outbox) = 1

SpelledLengths(v) ==
    {n \in MinHashLength..MaxHashLength : v = Str(NatToString(n))}

\* the lengths in the range that the leading decimal digits of the setting spell
LeadingLengths(v) ==
    {n \in MinHashLength..MaxHashLength :
        /\ v.t = "string"
        /\ OccursAt(v.s, NatToString(n), 1)
        /\ (Len(v.s) > Len(NatToString(n)) => v.s[Len(NatToString(n)) + 1] \notin Range(DecimalDigits))}

C19_TemplateTroubleAborts ==
    (disk.present # RequiredTemplates \/ disk.readable # RequiredTemplates) =>
        /\ pc \in {"start", "dataDir", "templates", "load", "aborted"}
        /\ last = NoRequest
        /\ pc = "aborted" =>
               \/ "Template setup error" \in startLog
               \/ "Failed to load HTML templates" \in startLog
               \/ env.NODE_ENV = Str(<<"t", "e", "s", "t">>) /\ "Failed to create data directory" \in startLog

\* in production the start-up has aborted on a 404.html that exists and
\* cannot be read
C19_Witness ==
    /\ env.NODE_ENV = Str(<<"p", "r", "o", "d", "u", "c", "t", "i", "o", "n">>)
    /\ "404" \in disk.present
    /\ "404" \notin disk.readable
    /\ pc = "aborted"
    /\ "Failed to load HTML templates" \in startLog

(***************************************************************************)
(* C20                                                                     *)
(***************************************************************************)
\* C20: once the creation of the data directory has failed, the failure is
\* in the log; with NODE_ENV "test" the start-up has aborted and no request
\* is handled; with any other NODE_ENV the start-up goes on and aborts only
\* for a reason of its templates.
C20_DataDirFailureLogged ==
    (disk.dataDir = "failing" /\ pc \notin {"start", "dataDir"}) =>
        /\ "Failed to create data directory" \in startLog
        /\ ~dataDirExists
        /\ IF env.NODE_ENV = Str(<<"t", "e", "s", "t">>)
           THEN pc = "aborted" /\ last = NoRequest
           ELSE pc = "aborted" =>
                    \/ disk.templateDir = "failing"
                    \/ disk.present # RequiredTemplates
                    \/ disk.readable # RequiredTemplates

\* in production the server answers a request although the creation of the
\* data directory failed
C20_Witness ==
    /\ env.NODE_ENV = Str(<<"p", "r", "o", "d", "u", "c", "t", "i", "o", "n">>)
    /\ disk.dataDir = "failing"
    /\ "Failed to create data directory" \in startLog
    /\ pc = "listening"
    /\ last.method = "GET /"
    /\ last.status = 200

(***************************************************************************)
(* C21                                                                     *)
(***************************************************************************)
\* C21: a POST /new whose title and message are non-empty strings, handled
\* while the data directory does not exist, is answered 204 and its page is
\* stored.
C21_SaveCreatesDataDir ==
    (ValidPost /\ ~dataDirExists) =>
        /\ last.status = 204
        /\ PageStored(last.newId)

(***************************************************************************)
(* C22                                                                     *)
(***************************************************************************)
\* C22: once the server has handled a request, whatever its outcome, the
\* process is still running: it has not exited.
C22_RequestsNeverStopService ==
    last # NoRequest => pc \notin {"exited", "aborted"}

(***************************************************************************)
(* C23                                                                     *)
(***************************************************************************)
\* C23: the file of every identifier holds what the last POST /new answered
\* 204 for that identifier wrote, also when an earlier request had stored a
\* page under it; a POST /new that generated a stored identifier is answered
\* 204; and a GET of the identifier that can read the file answers 200 with
\* that last content.
C23_CollidingWriteReplaces ==
    /\ \A id \in DOMAIN written :
           /\ PageStored(id)
           /\ files[PageFile(id)] = LastWritten(id).content
    /\ (IsPost /\ last.newId \in DOMAIN written) => last.status = 204
    /\ (IsGet /\ last.pageId \in DOMAIN written /\ ~last.ioFailed) =>
           /\ last.status = 200
           /\ last.resBody = LastWritten(last.pageId).content

\* two requests have written different pages under one identifier and a GET
\* has returned the second
C23_Witness ==
    /\ IsGet
    /\ last.status = 200
    /\ last.pageId \in DOMAIN written
    /\ Len(written[last.pageId]) = 2
    /\ written[last.pageId][1].content # written[last.pageId][2].content
    /\ last.resBody = written[last.pageId][2].content

(***************************************************************************)
(* C24                                                                     *)
(***************************************************************************)
\* the address http://<domain>/<id>
PublicUrl(id) == <<"h", "t", "t", "p", ":", "/", "/">> \o config.domain.s \o <<"/">> \o id

\* C24: the notifier has been invoked once for each POST /new answered 204 and
\* for no other request (never when the mail settings are incomplete), and
\* every message it sent carries the address http://<domain>/<id> of an id
\* under which a request with the title of the message stored a page, which
\* GET /:pageId finds under that id.
C24_NotifiedOncePerStoredPage ==
    /\ Len(outbox) = (IF \A v \in {config.smtp.host, config.email.from, config.email.to} : NonEmptyString(v)
                      THEN created ELSE 0)
    /\ Len(transports) = Len(outbox)
    /\ \A i \in DOMAIN outbox :
           \E id \in DOMAIN written :
               /\ \E k \in DOMAIN written[id] :
                      outbox[i].mail.text = written[id][k].title.s \o <<"\n", "\n", "V", "i", "e", "w", " ", "a", "t", ":", " ">> \o PublicUrl(id)
               /\ getFilePath(dataDir, id) \in DOMAIN files
               /\ files[getFilePath(dataDir, id)] = LastWritten(id).content

\* a GET of the id in the address of the one message sent has returned the
\* page the notifying request stored
C24_Witness ==
    /\ Len(outbox) = 1
    /\ IsGet
    /\ last.status = 200
    /\ Len(written[last.pageId]) = 1
    /\ outbox[1].mail.text = <<"H", "i", "\n", "\n", "V", "i", "e", "w", " ", "a", "t", ":", " ">> \o PublicUrl(last.pageId)
    /\ last.resBody = written[last.pageId][1].content

(***************************************************************************)
(* C25                                                                     *)
(***************************************************************************)
\* C25: a POST /new that is answered 400, as every POST /new with a parsed
\* body whose title or message is absent or empty is, generates no
\* identifier, writes no file and sends no notification: the files, the
\* pages written, the transports and the messages are as before the request.
C25_Rejected400HasNoEffect ==
    [][ (/\ last' # last
         /\ last'.method = "POST /new"
         /\ \/ last'.status = 400
            \/ last'.body.present /\ (Missing(last'.body.title) \/ Missing(last'.body.message)))
        => /\ last'.status = 400
           /\ last'.newId = <<>>
           /\ files' = files
           /\ written' = written
           /\ created' = created
           /\ transports' = transports
           /\ outbox' = outbox ]_vars

\* a request has been answered 400 by a server that holds a page and has
\* sent a message
C25_Witness ==
    /\ IsPost
    /\ last.status = 400
    /\ files # <<>>
    /\ outbox # <<>>

(***************************************************************************)
(* C26                                                                     *)
(***************************************************************************)
\* C26: a POST /new is answered 500 only when the write of the page failed,
\* and a POST /new whose body is not a pair of a non-empty string title and a
\* non-empty string message is answered 400.
C26_Only400ForBadBodies ==
    /\ (IsPost /\ last.status = 500) => last.ioFailed
    /\ (IsPost /\ ~ValidPost) => last.status = 400

(***************************************************************************)
(* C27                                                                     *)
(***************************************************************************)
\* C27: a GET /:pageId whose file is found by the existence check and then
\* cannot be read is answered 500 with the body "Error serving page" and
\* changes no file; and the request after it is served: a GET of the same
\* id whose read succeeds is answered 200 with the stored page.
C27_FailedReadIs500 ==
    [][ /\ (last' # last /\ last'.method = "GET /:pageId" /\ last'.ioFailed) =>
               /\ PageStored(last'.pageId)
               /\ last'.status = 500
               /\ last'.resBody = <<"E", "r", "r", "o", "r", " ", "s", "e", "r", "v", "i", "n", "g", " ", "p", "a", "g", "e">>
               /\ files' = files
        /\ (/\ IsGet /\ last.ioFailed
            /\ last' # last /\ last'.method = "GET /:pageId"
            /\ last'.pageId = last.pageId /\ ~last'.ioFailed) =>
               /\ last'.status = 200
               /\ last'.resBody = files[PageFile(last.pageId)] ]_vars

\* the read of a stored page has failed and the request was answered 500
C27_Witness ==
    /\ IsGet
    /\ last.ioFailed
    /\ last.status = 500
    /\ PageStored(last.pageId)

(***************************************************************************)
(* C28                                                                     *)
(***************************************************************************)
\* C28: whenever GET /:pageId finds a file and reads it, the file is the one
\* named page-<pageId>.html directly inside the data directory: its path is
\* the data directory, a slash, and that name, and the name has no slash.
C28_ReadsOnlyInsideDataDir ==
    (IsGet /\ existsSync(getFilePath(dataDir, last.pageId))) =>
        /\ getFilePath(dataDir, last.pageId)
               = pathJoin(dataDir, <<>>) \o <<"/", "p", "a", "g", "e", "-">> \o last.pageId \o <<".", "h", "t", "m", "l">>
        /\ "/" \notin Range(last.pageId)

(***************************************************************************)
(* C29                                                                     *)
(***************************************************************************)
\* the first n characters of a template with each placeholder that lies in
\* them replaced by what the map gives for it, the last placeholder first
RECURSIVE ReplaceLastFirst(_, _, _)
ReplaceLastFirst(template, data, n) ==
    LET matches == {j \in 1..n : /\ MatchLength(template, j) > 0
                                 /\ j + MatchLength(template, j) - 1 <= n}
    IN  IF matches = {} THEN SubSeq(template, 1, n)
        ELSE LET j == Greatest(matches)
                 m == MatchLength(template, j)
             IN  ReplaceLastFirst(template, data, j - 1)
                     \o Replacer(data, SubSeq(template, j, j + m - 1),
                                       SubSeq(template, j + 2, j + m - 3))
                     \o SubSeq(template, j + m, n)

\* C29: the result of applyTemplate is the template with exactly its own
\* placeholders replaced, each once and in any order of replacement: the text
\* of a substituted value is copied and never scanned, so a value that is
\* itself a placeholder of the map appears literally.
C29_SinglePass ==
    call.fn = "applyTemplate" =>
        /\ call.result = ReplaceLastFirst(call.template, call.data, Len(call.template))
        /\ \A key \in DOMAIN call.data :
               call.template = <<"{", "{">> \o key \o <<"}", "}">> => call.result = call.data[key].s

\* a title that is {{message}} and a message that is {{title}} have been put
\* into a page and stand there literally
C29_Witness ==
    /\ call.fn = "applyTemplate"
    /\ call.template = <<"<", "h", "1", ">", "{", "{", "t", "i", "t", "l", "e", "}", "}", "<", "/", "h", "1", ">", "<", "p", ">", "{", "{", "m", "e", "s", "s", "a", "g", "e", "}", "}", "<", "/", "p", ">">>
    /\ call.result = <<"<", "h", "1", ">", "{", "{", "m", "e", "s", "s", "a", "g", "e", "}", "}", "<", "/", "h", "1", ">", "<", "p", ">", "{", "{", "t", "i", "t", "l", "e", "}", "}", "<", "/", "p", ">">>

(***************************************************************************)
(* C30                                                                     *)
(***************************************************************************)
\* C30: of every title the preview image shows at most maxLines lines, and
\* each of them has at most maxCharsPerLine characters.
C30_LinesFit ==
    (call.fn = "generateOpenGraphImage" /\ "Open graph template not found:" \notin call.log) =>
        /\ Len(call.result) <= maxLines
        /\ \A i \in DOMAIN call.result : Len(call.result[i]) <= maxCharsPerLine

====
